---------------------------- MODULE Spec2Model ----------------------------
(***************************************************************************)
(* GridShield: the Secure Packet Protocol (SecurePacket build / serialize  *)
(* / parse), the interrupt-driven Tamper Monitor (TamperDetector) and the  *)
(* System Orchestrator (GridShieldSystem), as state machines.              *)
(*                                                                         *)
(* Memory is modelled at byte level: a packed struct is the sequence of    *)
(* its bytes (little-endian fields, as memcpy lays them out on the AVR and *)
(* x86 targets), a wire buffer is a sequence of bytes.  Values wider than  *)
(* 31 bits (meter id, timestamp, checksum, sequence counter) are kept as   *)
(* their bytes, so they keep their width.                                  *)
(*                                                                         *)
(* SHA-256 and ECDSA are libraries outside the repository (Crypto, uECC).  *)
(* They are replaced by stand-ins with the properties the protocol relies  *)
(* on: a change of one input byte changes the digest (first four bytes     *)
(* included), and a signature verifies exactly for the key, the digest and *)
(* the 64 signature bytes it was made from.                                *)
(***************************************************************************)
EXTENDS Integers, Sequences, FiniteSets, TLC

VARIABLES
    pkt,    \* the SecurePacket object: header_, payload_, footer_, is_valid_, next_sequence_
    wire,   \* the byte buffer between serialize and parse, and how it was produced
    pop,    \* the last packet operation: name, result, and what it was called on
    built,  \* the packet as its last successful build left it
    det,    \* the TamperDetector object and its configuration
    plat,   \* the platform: clock, pin levels, interrupt controller
    top,    \* the last Tamper Monitor operation and what it observed
    sys,    \* the GridShieldSystem object
    sop     \* the last orchestrator operation and what it did

pvars == <<pkt, wire, pop, built>>
tvars == <<det, plat, top>>
svars == <<sys, sop>>
vars == <<pkt, wire, pop, built, det, plat, top, sys, sop>>

-----------------------------------------------------------------------------
(* Program constants                                                       *)

MAX_PAYLOAD_SIZE == 512
MAGIC_HEADER == 165
MAGIC_FOOTER == 90
PROTOCOL_VERSION == 256
ECC_KEY_SIZE == 32
ECC_SIGNATURE_SIZE == 64
ECC_PUBLIC_KEY_SIZE == 64
SHA256_HASH_SIZE == 32
\* sizeof(PacketHeader), sizeof(PacketFooter) under #pragma pack(1)
HeaderSize == 31
FooterSize == 65
\* buffer[sizeof(PacketHeader) + MAX_PAYLOAD_SIZE + sizeof(PacketFooter)]
TransportBufferSize == 608

\* PacketType and Priority enumerators (one byte each)
PT_MeterData == 1
PT_TamperAlert == 2
PT_Heartbeat == 3
PR_Low == 1
PR_Normal == 2
PR_High == 3
PR_Critical == 4
PR_Emergency == 5

-----------------------------------------------------------------------------
(* Bytes and little-endian fields                                          *)

Min(a, b) == IF a < b THEN a ELSE b

Zeros(n) == SubSeq([i \in 1..n |-> 0], 1, n)

\* memcpy(dst + off - 1, src, Len(src)) into a byte array (1-based offset)
MemCpy(dst, off, src) ==
    SubSeq(dst, 1, off - 1) \o src \o SubSeq(dst, off + Len(src), Len(dst))

\* the first n bytes starting at 1-based offset off
Bytes(s, off, n) == SubSeq(s, off, off + n - 1)

LE16(n) == <<n % 256, n \div 256>>
U16(b) == b[1] + 256 * b[2]

\* ++ on a uint32_t kept as its four little-endian bytes (wraps at 2^32)
Inc32(b) ==
    IF b[1] < 255 THEN <<b[1] + 1, b[2], b[3], b[4]>>
    ELSE IF b[2] < 255 THEN <<0, b[2] + 1, b[3], b[4]>>
    ELSE IF b[3] < 255 THEN <<0, 0, b[3] + 1, b[4]>>
    ELSE IF b[4] < 255 THEN <<0, 0, 0, b[4] + 1>>
    ELSE <<0, 0, 0, 0>>

\* Offsets of the PacketHeader fields (1-based)
OffMagic == 1
OffVersion == 2
OffType == 4
OffPriority == 5
OffMeterId == 6
OffSequence == 14
OffPayloadLength == 18
OffTimestamp == 20
OffChecksum == 28

\* A magic_header read that always yields the expected byte: what parse would
\* see if its header magic comparison were missing
HdrMagicUnchecked(h) == MAGIC_HEADER

HdrMagic(h) == h[OffMagic]
HdrPayloadLength(h) == U16(Bytes(h, OffPayloadLength, 2))
HdrChecksum(h) == Bytes(h, OffChecksum, 4)
HdrSequence(h) == Bytes(h, OffSequence, 4)
FtrSignature(f) == Bytes(f, 1, ECC_SIGNATURE_SIZE)
FtrMagic(f) == f[FooterSize]

\* PacketHeader() and PacketFooter() default constructors
PacketHeaderInit ==
    <<MAGIC_HEADER>> \o LE16(PROTOCOL_VERSION) \o <<0, PR_Normal>>
        \o Zeros(8) \o Zeros(4) \o Zeros(2) \o Zeros(8) \o Zeros(4)

PacketFooterInit == Zeros(ECC_SIGNATURE_SIZE) \o <<MAGIC_FOOTER>>


-----------------------------------------------------------------------------
(* Crypto Engine.  sha256 and the uECC calls are stand-ins, see above.     *)

LE32(n) == <<n % 256, (n \div 256) % 256, (n \div 65536) % 256, (n \div 16777216) % 256>>

RECURSIVE WSum(_, _, _)
WSum(data, lo, hi) ==
    IF lo > hi THEN 0
    ELSE IF lo = hi THEN (2 * lo + 1) * (data[lo] + 1)
    ELSE LET mid == (lo + hi) \div 2
         IN  WSum(data, lo, mid) + WSum(data, mid + 1, hi)

\* IPlatformCrypto::sha256: 32 bytes; the first four are the little-endian
\* bytes of a sum that every single-byte change of the input changes
Sha256(data) ==
    LET s == WSum(data, 1, Len(data))
        word(j) == LE32(s * (2 * j + 1) + 7919 * j)
    IN  word(0) \o word(1) \o word(2) \o word(3)
            \o word(4) \o word(5) \o word(6) \o word(7)

\* uECC_make_key: the public key that belongs to a private key
PubOf(priv) ==
    SubSeq([i \in 1..ECC_PUBLIC_KEY_SIZE |->
               (priv[((i - 1) % ECC_KEY_SIZE) + 1] * (IF i <= ECC_KEY_SIZE THEN 3 ELSE 5) + i) % 256],
           1, ECC_PUBLIC_KEY_SIZE)

\* uECC_sign over a digest with the random nonce k: r || s
EccSign(priv, hash, k) ==
    LET P == PubOf(priv)
        r == SubSeq([i \in 1..32 |-> (k + 11 * i) % 256], 1, 32)
    IN  r \o [i \in 1..32 |-> (hash[i] + P[i] + P[32 + i] + r[i]) % 256]

\* uECC_verify
EccVerify(pub, hash, sig) ==
    \A i \in 1..32 : sig[32 + i] = (hash[i] + pub[i] + pub[32 + i] + sig[i]) % 256

\* ECCKeyPair after clear(): both buffers zero, both flags false
ClearedKeyPair ==
    [has_private |-> FALSE, has_public |-> FALSE,
     private_key |-> Zeros(ECC_KEY_SIZE), public_key |-> Zeros(ECC_PUBLIC_KEY_SIZE)]

\* ECCKeyPair::generate with the private key the RNG seed s yields
GeneratedKeyPair(s) ==
    LET priv == SubSeq([i \in 1..ECC_KEY_SIZE |-> (37 * s + 7 * i) % 256], 1, ECC_KEY_SIZE)
    IN  [has_private |-> TRUE, has_public |-> TRUE,
         private_key |-> priv, public_key |-> PubOf(priv)]

\* ECCKeyPair::load_public_key on a cleared pair
PublicOnly(kp) ==
    [ClearedKeyPair EXCEPT !.has_public = TRUE, !.public_key = kp.public_key]

\* A sign that does not ask whether the key pair holds a private key
SignWithoutKeyCheck(keypair, message, rng_ok, k) ==
    IF ~rng_ok THEN [err |-> "SignatureInvalid", sig |-> <<>>]
    ELSE [err |-> "Ok", sig |-> EccSign(keypair.private_key, Sha256(message), k)]

\* CryptoEngine::sign
Sign(keypair, message, rng_ok, k) ==
    IF ~keypair.has_private THEN [err |-> "InvalidParameter", sig |-> <<>>]
    ELSE IF ~rng_ok THEN [err |-> "SignatureInvalid", sig |-> <<>>]
    ELSE [err |-> "Ok", sig |-> EccSign(keypair.private_key, Sha256(message), k)]

\* CryptoEngine::verify
Verify(keypair, message, signature) ==
    IF ~keypair.has_public THEN [err |-> "InvalidParameter", ok |-> FALSE]
    ELSE [err |-> "Ok", ok |-> EccVerify(keypair.public_key, Sha256(message), signature)]

-----------------------------------------------------------------------------
(* SecurePacket                                                            *)

\* SecurePacket::SecurePacket()
NewPacket ==
    [header |-> PacketHeaderInit,
     payload |-> Zeros(MAX_PAYLOAD_SIZE),
     footer |-> PacketFooterInit,
     is_valid |-> FALSE,
     next_sequence |-> Zeros(4)]

\* header_ || payload_[0 .. payload_length): what is signed and verified
SignData(p) == p.header \o Bytes(p.payload, 1, HdrPayloadLength(p.header))

\* SecurePacket::compute_signature
ComputeSignature(p, keypair, rng_ok, k) ==
    LET s == Sign(keypair, SignData(p), rng_ok, k)
    IN  IF s.err # "Ok" THEN [pkt |-> p, res |-> s.err]
        ELSE [pkt |-> [p EXCEPT !.footer = MemCpy(@, 1, s.sig)], res |-> "Ok"]

\* A build that stamps the sequence but does not advance the counter
BuildNoIncrement(p, in) ==
    IF in.payload_len > MAX_PAYLOAD_SIZE THEN [pkt |-> p, res |-> "BufferOverflow"]
    ELSE IF ~in.key.has_private THEN [pkt |-> p, res |-> "AuthenticationFailed"]
    ELSE
        LET h1 == MemCpy(MemCpy(MemCpy(MemCpy(MemCpy(MemCpy(p.header,
                      OffType, <<in.type>>),
                      OffMeterId, in.meter_id),
                      OffPriority, <<in.priority>>),
                      OffSequence, p.next_sequence),
                      OffPayloadLength, LE16(in.payload_len)),
                      OffTimestamp, Zeros(8))
            pl == IF in.has_payload /\ in.payload_len > 0
                  THEN MemCpy(p.payload, 1, Bytes(in.payload, 1, in.payload_len))
                  ELSE p.payload
            hash == Sha256(Bytes(pl, 1, in.payload_len))
            h2 == MemCpy(h1, OffChecksum, Bytes(hash, 1, 4))
            p1 == [p EXCEPT !.header = h2, !.payload = pl]
            sg == ComputeSignature(p1, in.key, in.rng_ok, in.nonce)
        IN  IF sg.res # "Ok" THEN sg
            ELSE [pkt |-> [sg.pkt EXCEPT !.is_valid = TRUE], res |-> "Ok"]

\* A build that advances the sequence counter before it looks at its
\* arguments
BuildCountsRejected(p, in) ==
    LET q == [p EXCEPT !.next_sequence = Inc32(@)]
    IN
    IF in.payload_len > MAX_PAYLOAD_SIZE THEN [pkt |-> q, res |-> "BufferOverflow"]
    ELSE IF ~in.key.has_private THEN [pkt |-> q, res |-> "AuthenticationFailed"]
    ELSE
        LET h1 == MemCpy(MemCpy(MemCpy(MemCpy(MemCpy(MemCpy(p.header,
                      OffType, <<in.type>>),
                      OffMeterId, in.meter_id),
                      OffPriority, <<in.priority>>),
                      OffSequence, p.next_sequence),
                      OffPayloadLength, LE16(in.payload_len)),
                      OffTimestamp, Zeros(8))
            pl == IF in.has_payload /\ in.payload_len > 0
                  THEN MemCpy(p.payload, 1, Bytes(in.payload, 1, in.payload_len))
                  ELSE p.payload
            hash == Sha256(Bytes(pl, 1, in.payload_len))
            h2 == MemCpy(h1, OffChecksum, Bytes(hash, 1, 4))
            p1 == [q EXCEPT !.header = h2, !.payload = pl]
            sg == ComputeSignature(p1, in.key, in.rng_ok, in.nonce)
        IN  IF sg.res # "Ok" THEN sg
            ELSE [pkt |-> [sg.pkt EXCEPT !.is_valid = TRUE], res |-> "Ok"]

\* SecurePacket::build.  in.has_payload is payload != nullptr.
Build(p, in) ==
    IF in.payload_len > MAX_PAYLOAD_SIZE THEN [pkt |-> p, res |-> "BufferOverflow"]
    ELSE IF ~in.key.has_private THEN [pkt |-> p, res |-> "AuthenticationFailed"]
    ELSE
        LET h1 == MemCpy(MemCpy(MemCpy(MemCpy(MemCpy(MemCpy(p.header,
                      OffType, <<in.type>>),
                      OffMeterId, in.meter_id),
                      OffPriority, <<in.priority>>),
                      OffSequence, p.next_sequence),
                      OffPayloadLength, LE16(in.payload_len)),
                      OffTimestamp, Zeros(8))
            pl == IF in.has_payload /\ in.payload_len > 0
                  THEN MemCpy(p.payload, 1, Bytes(in.payload, 1, in.payload_len))
                  ELSE p.payload
            hash == Sha256(Bytes(pl, 1, in.payload_len))
            h2 == MemCpy(h1, OffChecksum, Bytes(hash, 1, 4))
            p1 == [p EXCEPT !.header = h2, !.payload = pl,
                            !.next_sequence = Inc32(@)]
            sg == ComputeSignature(p1, in.key, in.rng_ok, in.nonce)
        IN  IF sg.res # "Ok" THEN sg
            ELSE [pkt |-> [sg.pkt EXCEPT !.is_valid = TRUE], res |-> "Ok"]

\* SecurePacket::verify_integrity
VerifyIntegrity(p) ==
    LET hash == Sha256(Bytes(p.payload, 1, HdrPayloadLength(p.header)))
    IN  IF Bytes(hash, 1, 4) # HdrChecksum(p.header) THEN "IntegrityViolation" ELSE "Ok"

\* A parse that verifies the signature before the payload checksum
ParseSignatureFirst(p, buffer, server_keypair) ==
    IF Len(buffer) < HeaderSize + FooterSize THEN [pkt |-> p, res |-> "InvalidPacket", verified |-> FALSE]
    ELSE
        LET p1 == [p EXCEPT !.header = Bytes(buffer, 1, HeaderSize)]
            plen == HdrPayloadLength(p1.header)
        IN  IF HdrMagic(p1.header) # MAGIC_HEADER THEN [pkt |-> p1, res |-> "InvalidPacket", verified |-> FALSE]
            ELSE IF plen > MAX_PAYLOAD_SIZE THEN [pkt |-> p1, res |-> "BufferOverflow", verified |-> FALSE]
            ELSE IF Len(buffer) < HeaderSize + plen + FooterSize
                 THEN [pkt |-> p1, res |-> "InvalidPacket", verified |-> FALSE]
            ELSE
                LET p2 == [p1 EXCEPT
                              !.payload = MemCpy(@, 1, Bytes(buffer, HeaderSize + 1, plen)),
                              !.footer = Bytes(buffer, HeaderSize + plen + 1, FooterSize)]
                IN  IF FtrMagic(p2.footer) # MAGIC_FOOTER
                        THEN [pkt |-> p2, res |-> "InvalidPacket", verified |-> FALSE]
                    ELSE
                        LET vi == VerifyIntegrity(p2)
                            v == Verify(server_keypair, SignData(p2), FtrSignature(p2.footer))
                        IN  IF v.err # "Ok" \/ ~v.ok
                                THEN [pkt |-> p2, res |-> "SignatureInvalid",
                                      verified |-> TRUE]
                            ELSE IF vi # "Ok"
                                THEN [pkt |-> p2, res |-> vi, verified |-> TRUE]
                            ELSE [pkt |-> [p2 EXCEPT !.is_valid = TRUE], res |-> "Ok",
                                  verified |-> TRUE]

\* SecurePacket::parse; verified tells whether crypto.verify was called
Parse(p, buffer, server_keypair) ==
    IF Len(buffer) < HeaderSize + FooterSize THEN [pkt |-> p, res |-> "InvalidPacket", verified |-> FALSE]
    ELSE
        LET p1 == [p EXCEPT !.header = Bytes(buffer, 1, HeaderSize)]
            plen == HdrPayloadLength(p1.header)
        IN  IF HdrMagic(p1.header) # MAGIC_HEADER THEN [pkt |-> p1, res |-> "InvalidPacket", verified |-> FALSE]
            ELSE IF plen > MAX_PAYLOAD_SIZE THEN [pkt |-> p1, res |-> "BufferOverflow", verified |-> FALSE]
            ELSE IF Len(buffer) < HeaderSize + plen + FooterSize
                 THEN [pkt |-> p1, res |-> "InvalidPacket", verified |-> FALSE]
            ELSE
                LET p2 == [p1 EXCEPT
                              !.payload = MemCpy(@, 1, Bytes(buffer, HeaderSize + 1, plen)),
                              !.footer = Bytes(buffer, HeaderSize + plen + 1, FooterSize)]
                IN  IF FtrMagic(p2.footer) # MAGIC_FOOTER
                        THEN [pkt |-> p2, res |-> "InvalidPacket", verified |-> FALSE]
                    ELSE
                        LET vi == VerifyIntegrity(p2)
                            v == Verify(server_keypair, SignData(p2), FtrSignature(p2.footer))
                        IN  IF vi # "Ok" THEN [pkt |-> p2, res |-> vi, verified |-> FALSE]
                            ELSE IF v.err # "Ok" \/ ~v.ok
                                THEN [pkt |-> p2, res |-> "SignatureInvalid",
                                      verified |-> TRUE]
                            ELSE [pkt |-> [p2 EXCEPT !.is_valid = TRUE], res |-> "Ok",
                                  verified |-> TRUE]

\* A serialize that copies the header before it looks at the buffer size
SerializeHeaderFirst(p, buffer_size) ==
    IF ~p.is_valid THEN [res |-> "InvalidState", out |-> <<>>]
    ELSE IF buffer_size < HeaderSize + HdrPayloadLength(p.header) + FooterSize
        THEN [res |-> "BufferOverflow", out |-> Bytes(p.header, 1, Min(buffer_size, HeaderSize))]
    ELSE [res |-> "Ok",
          out |-> p.header \o Bytes(p.payload, 1, HdrPayloadLength(p.header)) \o p.footer]

\* SecurePacket::serialize: the bytes written to the caller's buffer
Serialize(p, buffer_size) ==
    IF ~p.is_valid THEN [res |-> "InvalidState", out |-> <<>>]
    ELSE IF buffer_size < HeaderSize + HdrPayloadLength(p.header) + FooterSize
        THEN [res |-> "BufferOverflow", out |-> <<>>]
    ELSE [res |-> "Ok",
          out |-> p.header \o Bytes(p.payload, 1, HdrPayloadLength(p.header)) \o p.footer]

-----------------------------------------------------------------------------
(* The packet protocol as a state machine: one SecurePacket object, used   *)
(* through its public operations in any order, and one buffer that carries *)
(* frames to parse.  The channel may deliver bytes that no build produced, *)
(* and may change one byte of a frame on its way from serialize to parse,  *)
(* or cut the frame short.                                                 *)

\* Bounds of the packet runs
MaxBuilds == 1
MaxParses == 2

DeviceKey == GeneratedKeyPair(1)
ServerKey == GeneratedKeyPair(2)

MeterIdA == <<239, 205, 171, 144, 120, 86, 52, 18>>

LongPayload == SubSeq([i \in 1..MAX_PAYLOAD_SIZE |-> (i * 7) % 251], 1, MAX_PAYLOAD_SIZE)

BuildInput(type, meter_id, priority, has_payload, payload, payload_len, key, rng_ok, nonce) ==
    [type |-> type, meter_id |-> meter_id, priority |-> priority,
     has_payload |-> has_payload, payload |-> payload, payload_len |-> payload_len,
     key |-> key, rng_ok |-> rng_ok, nonce |-> nonce]

BuildInputs ==
    { BuildInput(PT_MeterData, MeterIdA, PR_Normal, TRUE, <<1, 2, 3>>, 3, DeviceKey, TRUE, 7),
      BuildInput(PT_TamperAlert, Zeros(8), PR_Emergency, TRUE, <<>>, 0, DeviceKey, TRUE, 200),
      BuildInput(PT_Heartbeat, MeterIdA, PR_Low, TRUE, LongPayload, MAX_PAYLOAD_SIZE, ServerKey, TRUE, 9),
      BuildInput(PT_MeterData, MeterIdA, PR_Normal, FALSE, <<>>, 2, DeviceKey, TRUE, 7),
      BuildInput(PT_MeterData, MeterIdA, PR_Normal, TRUE, Zeros(MAX_PAYLOAD_SIZE + 1),
                 MAX_PAYLOAD_SIZE + 1, DeviceKey, TRUE, 7),
      BuildInput(PT_MeterData, MeterIdA, PR_Normal, TRUE, <<1, 2, 3>>, 3,
                 PublicOnly(DeviceKey), TRUE, 7),
      BuildInput(PT_MeterData, MeterIdA, PR_Normal, TRUE, <<4>>, 1, DeviceKey, FALSE, 7) }

\* The key pairs parse is called with: the public half of the device key,
\* another key pair, a key pair that holds no key
ParseKeys == { PublicOnly(DeviceKey), ServerKey, ClearedKeyPair }

\* Frames that no build produced: all zero; header magic alone right
RawFrames == { Zeros(HeaderSize + FooterSize),
               <<MAGIC_HEADER>> \o Zeros(HeaderSize + FooterSize - 1) }

\* The value a changed byte takes
TamperVal(old) == (old + 1) % 256

\* Whether the key pair vk verifies what the key pair k signed
Matches(vk, k) == vk.has_public /\ vk.public_key = PubOf(k.private_key)

FrameSize(p) == HeaderSize + HdrPayloadLength(p.header) + FooterSize

\* One SecurePacket as constructed, an empty buffer; the Tamper Monitor and
\* the orchestrator are not part of the packet runs.
InitPacket ==
    /\ det = [idle |-> TRUE]
    /\ plat = [idle |-> TRUE]
    /\ top = [idle |-> TRUE]
    /\ sys = [idle |-> TRUE]
    /\ sop = [idle |-> TRUE]
    /\ pkt = NewPacket
    /\ wire = [buf |-> <<>>, kind |-> "none", tpos |-> 0, cut |-> FALSE]
    /\ pop = [name |-> "new", res |-> "Ok", valid_before |-> FALSE, key |-> ClearedKeyPair,
              size |-> 0, nb |-> 0, np |-> 0, faulted |-> FALSE, verified |-> FALSE]
    /\ built = [fresh |-> FALSE, header |-> PacketHeaderInit, payload |-> <<>>,
                footer |-> PacketFooterInit, key |-> ClearedKeyPair]

\* packet.build(type, meter_id, priority, payload, payload_len, crypto, keypair)
PBuild(in) ==
    /\ UNCHANGED <<tvars, svars>>
    /\ pop.nb < MaxBuilds
    /\ \E r \in {Build(pkt, in)} :
           /\ pkt' = r.pkt
           /\ pop' = [pop EXCEPT !.name = "build", !.res = r.res,
                                 !.valid_before = pkt.is_valid, !.key = in.key,
                                 !.size = in.payload_len, !.nb = @ + 1]
           /\ built' = IF r.res = "Ok"
                       THEN [fresh |-> TRUE, header |-> r.pkt.header,
                             payload |-> Bytes(r.pkt.payload, 1, in.payload_len),
                             footer |-> r.pkt.footer, key |-> in.key]
                       ELSE IF r.pkt # pkt THEN [built EXCEPT !.fresh = FALSE]
                       ELSE built
           /\ wire' = IF r.res = "Ok" /\ wire.kind = "built"
                      THEN [wire EXCEPT !.kind = "other"] ELSE wire

\* packet.serialize(buffer, buffer_size): wire.buf is the destination, up to
\* the returned length when serialize succeeds
PSerialize(buffer_size) ==
    /\ UNCHANGED <<tvars, svars>>
    /\ buffer_size \in 0..TransportBufferSize
    /\ \E r \in {Serialize(pkt, buffer_size)} :
           /\ pop' = [pop EXCEPT !.name = "serialize", !.res = r.res,
                                 !.valid_before = pkt.is_valid, !.size = buffer_size]
           /\ wire' = IF r.res = "Ok"
                      THEN [buf |-> r.out,
                            kind |-> IF built.fresh THEN "built" ELSE "other",
                            tpos |-> 0, cut |-> FALSE]
                      ELSE IF r.out # <<>>
                      THEN [wire EXCEPT !.buf = r.out \o SubSeq(@, Len(r.out) + 1, Len(@)),
                                        !.kind = "other"]
                      ELSE wire
    /\ UNCHANGED <<pkt, built>>

\* packet.parse(buffer, buffer_len, crypto, key).  A frame the channel has
\* changed is delivered to one parse.
PParse(key) ==
    /\ UNCHANGED <<tvars, svars>>
    /\ pop.np < MaxParses
    /\ pop.faulted => pop.name \in {"tamper", "truncate"}
    /\ \E r \in {Parse(pkt, wire.buf, key)} :
           /\ pkt' = r.pkt
           /\ pop' = [pop EXCEPT !.name = "parse", !.res = r.res,
                                 !.valid_before = pkt.is_valid, !.key = key,
                                 !.size = Len(wire.buf), !.np = @ + 1,
                                 !.verified = r.verified]
           /\ built' = IF r.pkt # pkt THEN [built EXCEPT !.fresh = FALSE] ELSE built
    /\ UNCHANGED wire

\* The channel changes byte i of the frame that serialize has just written
\* (once in a run).
PTamper(i) ==
    /\ UNCHANGED <<tvars, svars>>
    /\ ~pop.faulted
    /\ pop.name = "serialize" /\ pop.res = "Ok" /\ wire.kind = "built"
    /\ wire' = [wire EXCEPT !.buf = [@ EXCEPT ![i] = TamperVal(@)], !.tpos = i]
    /\ pop' = [pop EXCEPT !.name = "tamper", !.faulted = TRUE]
    /\ UNCHANGED <<pkt, built>>

\* The channel cuts the frame that serialize has just written to n bytes
\* (once in a run).
PTruncate(n) ==
    /\ UNCHANGED <<tvars, svars>>
    /\ ~pop.faulted
    /\ pop.name = "serialize" /\ pop.res = "Ok" /\ wire.kind = "built"
    /\ n < Len(wire.buf)
    /\ wire' = [wire EXCEPT !.buf = Bytes(@, 1, n), !.cut = TRUE]
    /\ pop' = [pop EXCEPT !.name = "truncate", !.faulted = TRUE]
    /\ UNCHANGED <<pkt, built>>

\* Bytes arrive that no build produced.
PReceive(raw) ==
    /\ UNCHANGED <<tvars, svars>>
    /\ wire.kind = "none"
    /\ wire' = [buf |-> raw, kind |-> "raw", tpos |-> 0, cut |-> FALSE]
    /\ pop' = [pop EXCEPT !.name = "receive"]
    /\ UNCHANGED <<pkt, built>>

PNext ==
    \/ \E in \in BuildInputs : PBuild(in)
    \/ \E size \in {FrameSize(pkt) - 1, FrameSize(pkt)} : PSerialize(size)
    \/ \E key \in ParseKeys : PParse(key)
    \/ \E i \in 1..Len(wire.buf) : PTamper(i)
    \/ \E n \in {Len(wire.buf) - 1, HeaderSize + FooterSize - 1} : n >= 0 /\ PTruncate(n)
    \/ \E raw \in RawFrames : PReceive(raw)

SpecPacket == InitPacket /\ [][PNext]_vars

-----------------------------------------------------------------------------
(* Properties of the packet protocol                                       *)

\* type, priority, meter_id, sequence, payload_length, timestamp, checksum
HdrFields(h) == Bytes(h, OffType, HeaderSize - OffType + 1)

\* The last operation parsed the frame of the last successful build, as
\* serialize wrote it
ParsedBuiltFrame ==
    pop.name = "parse" /\ wire.kind = "built" /\ wire.tpos = 0 /\ ~wire.cut

\* The last operation parsed the frame of the last successful build with
\* byte wire.tpos changed
ParsedTamperedFrame ==
    pop.name = "parse" /\ wire.kind = "built" /\ wire.tpos > 0

BuiltPayloadLength == HdrPayloadLength(built.header)

\* C1: a packet built with a key pair that holds a private key, serialized
\* and then parsed with the matching public key is accepted: parse returns
\* Ok, is_valid() is true, and the header fields and the payload bytes are
\* those of the built packet.
C1_RoundTrip ==
    (ParsedBuiltFrame /\ Matches(pop.key, built.key)) =>
        /\ pop.res = "Ok"
        /\ pkt.is_valid
        /\ HdrFields(pkt.header) = HdrFields(built.header)
        /\ Bytes(pkt.payload, 1, BuiltPayloadLength) = built.payload

\* C2: after a valid build and serialize of a packet with at least one
\* payload byte, a change of one payload byte of the frame makes parse fail
\* with IntegrityViolation, and the packet is not valid afterwards.
C2_PayloadTamperRejected ==
    (/\ ParsedTamperedFrame
     /\ BuiltPayloadLength >= 1
     /\ wire.tpos > HeaderSize
     /\ wire.tpos <= HeaderSize + BuiltPayloadLength) =>
        pop.res = "IntegrityViolation" /\ ~pkt.is_valid

\* C3: after a valid build and serialize, a change of one byte of the 64
\* signature bytes of the frame makes parse fail with SignatureInvalid; so
\* does a parse of the unchanged frame with a key pair that holds no public
\* key (verify itself returns an error).
C3_SignatureTamperRejected ==
    /\ (/\ ParsedTamperedFrame
        /\ wire.tpos > HeaderSize + BuiltPayloadLength
        /\ wire.tpos <= HeaderSize + BuiltPayloadLength + ECC_SIGNATURE_SIZE) =>
            pop.res = "SignatureInvalid"
    /\ (ParsedBuiltFrame /\ ~pop.key.has_public) => pop.res = "SignatureInvalid"

\* C4: parse of a buffer shorter than header + footer fails with
\* InvalidPacket; of a buffer whose header magic byte is not 0xA5 fails with
\* InvalidPacket; of a buffer that declares a payload longer than 512 bytes
\* fails with BufferOverflow; of a buffer shorter than header + declared
\* payload + footer fails with InvalidPacket; of a buffer whose footer magic
\* byte is not 0x5A fails with InvalidPacket.
C4_Framing ==
    pop.name = "parse" =>
        LET b == wire.buf
            n == Len(b)
            plen == U16(Bytes(b, OffPayloadLength, 2))
        IN  IF n < HeaderSize + FooterSize THEN pop.res = "InvalidPacket"
            ELSE IF b[OffMagic] # MAGIC_HEADER THEN pop.res = "InvalidPacket"
            ELSE IF plen > MAX_PAYLOAD_SIZE THEN pop.res = "BufferOverflow"
            ELSE IF n < HeaderSize + plen + FooterSize THEN pop.res = "InvalidPacket"
            ELSE IF b[HeaderSize + plen + FooterSize] # MAGIC_FOOTER
                THEN pop.res = "InvalidPacket"
            ELSE TRUE

\* C4 happens: a frame that a build on a fresh object produced, valid but
\* for its footer magic byte, was parsed and rejected with InvalidPacket; so
\* was one valid but for its header magic byte.
C4_Witness ==
    /\ ParsedTamperedFrame
    /\ built.header[OffMagic] = MAGIC_HEADER
    /\ wire.tpos = Len(wire.buf)
    /\ BuiltPayloadLength = MAX_PAYLOAD_SIZE
    /\ pop.res = "InvalidPacket"

\* C5: a parse that returns an error never leaves the object valid.
C5_ValidOnlyByPassingParse ==
    (pop.name = "parse" /\ pop.res # "Ok") => ~pkt.is_valid
-----------------------------------------------------------------------------
(* Tamper Monitor (firmware): TamperDetector with the deferred debounce.   *)
(* The clock is the platform's monotonic millisecond clock; the runs keep  *)
(* it below MaxTime, so timestamps are small naturals and never wrap.      *)
(* A pin level is TRUE when the pin reads high; the sensor is active low.  *)

\* TamperConfig() default debounce_ms, also what main.cpp configures
DebounceMs == 50

\* Bounds of the clock: it advances in steps of TickMs up to MaxTime
TickMs == 25
MaxTime == 100

TamperConfig(sensor_pin, backup_power_pin, debounce_ms) ==
    [sensor_pin |-> sensor_pin, backup_power_pin |-> backup_power_pin,
     debounce_ms |-> debounce_ms]

\* The configurations initialize is called with: without and with a backup
\* power pin
TamperConfigs == { TamperConfig(2, 0, DebounceMs), TamperConfig(5, 6, DebounceMs) }

\* TamperDetector::TamperDetector() with TamperConfig()
NewDetector ==
    [config |-> TamperConfig(0, 0, DebounceMs),
     is_tampered |-> FALSE,
     pending_tamper |-> FALSE,
     tamper_type |-> "None",
     tamper_timestamp |-> 0,
     last_trigger_time |-> 0,
     initialized |-> FALSE]

\* The states of the Tamper Monitor, from its two flags
DetState(d) ==
    IF d.is_tampered THEN "Confirmed"
    ELSE IF d.pending_tamper THEN "PendingConfirmation"
    ELSE "Idle"

\* TamperDetector::initialize; gpio_ok is the result of gpio->configure
DetInitialize(d, config, platform_valid, gpio_ok) ==
    IF d.initialized THEN [det |-> d, res |-> "SystemAlreadyInitialized"]
    ELSE IF ~platform_valid THEN [det |-> d, res |-> "InvalidParameter"]
    ELSE IF ~gpio_ok THEN [det |-> [d EXCEPT !.config = config], res |-> "HardwareFailure"]
    ELSE [det |-> [d EXCEPT !.config = config, !.initialized = TRUE], res |-> "Ok"]

\* TamperDetector::start and stop: the result, and whether the handler is
\* attached and enabled afterwards (irq is what it was before)
DetStart(d, irq) ==
    IF ~d.initialized THEN [res |-> "SystemNotInitialized", irq |-> irq]
    ELSE [res |-> "Ok", irq |-> TRUE]

DetStop(d, irq) ==
    IF ~d.initialized THEN [res |-> "SystemNotInitialized", irq |-> irq]
    ELSE [res |-> "Ok", irq |-> FALSE]

\* An acknowledge_tamper that clears the confirmed flag
AcknowledgeClears(d) == [d EXCEPT !.is_tampered = FALSE]

\* TamperDetector::acknowledge_tamper
AcknowledgeTamper(d) == d

\* TamperDetector::reset
Reset(d) ==
    IF ~d.initialized THEN [det |-> d, res |-> "SystemNotInitialized"]
    ELSE [det |-> [d EXCEPT !.is_tampered = FALSE, !.pending_tamper = FALSE,
                            !.tamper_type = "None", !.tamper_timestamp = 0,
                            !.last_trigger_time = 0],
          res |-> "Ok"]

\* A confirm_tamper that never looks at the backup power pin
ConfirmTamperCasingOnly(d, now, power) ==
    [d EXCEPT !.is_tampered = TRUE, !.tamper_type = "CasingOpened",
              !.tamper_timestamp = now]

\* TamperDetector::confirm_tamper; power is what gpio->read of the backup
\* power pin returns: "high", "low" or "error"
ConfirmTamper(d, now, power) ==
    [d EXCEPT !.is_tampered = TRUE,
              !.tamper_type = IF d.config.backup_power_pin > 0 /\ power = "low"
                              THEN "PowerCutAttempt" ELSE "CasingOpened",
              !.tamper_timestamp = now]

\* A poll that does not wait for the debounce window
PollNoDebounce(d, now, read, power) ==
    IF ~d.initialized THEN d
    ELSE IF ~d.pending_tamper \/ d.is_tampered THEN d
    ELSE IF read # "low" THEN [d EXCEPT !.pending_tamper = FALSE]
    ELSE [ConfirmTamper(d, now, power) EXCEPT !.pending_tamper = FALSE]

\* TamperDetector::poll; read is what gpio->read of the sensor pin returns
Poll(d, now, read, power) ==
    IF ~d.initialized THEN d
    ELSE IF ~d.pending_tamper \/ d.is_tampered THEN d
    ELSE IF now - d.last_trigger_time < d.config.debounce_ms THEN d
    ELSE IF read # "low" THEN [d EXCEPT !.pending_tamper = FALSE]
    ELSE [ConfirmTamper(d, now, power) EXCEPT !.pending_tamper = FALSE]

\* An interrupt handler without the guard
InterruptHandlerUnguarded(d, now) ==
    [d EXCEPT !.pending_tamper = TRUE, !.last_trigger_time = now]

\* TamperDetector::interrupt_handler
InterruptHandler(d, now) ==
    IF ~d.is_tampered /\ ~d.pending_tamper
    THEN [d EXCEPT !.pending_tamper = TRUE, !.last_trigger_time = now]
    ELSE d

\* IPlatformGPIO::read of a pin at the given level
Level(high) == IF high THEN "high" ELSE "low"

-----------------------------------------------------------------------------
(* The Tamper Monitor as a state machine: the main loop calls the public   *)
(* operations one at a time; the sensor falls and rises; a falling edge    *)
(* runs the interrupt handler when it is attached and enabled.             *)

Observed(name, res, read, power) ==
    [name |-> name, res |-> res, pre |-> det, now |-> plat.now,
     read |-> read, power |-> power]

InitTamper ==
    /\ pkt = [idle |-> TRUE]
    /\ wire = [idle |-> TRUE]
    /\ pop = [idle |-> TRUE]
    /\ built = [idle |-> TRUE]
    /\ sys = [idle |-> TRUE]
    /\ sop = [idle |-> TRUE]
    /\ det = NewDetector
    /\ plat = [now |-> 0, sensor |-> TRUE, power |-> TRUE, irq |-> FALSE]
    /\ top = [name |-> "new", res |-> "Ok", pre |-> NewDetector, now |-> 0,
              read |-> "none", power |-> "none"]

TInitialize(config, gpio_ok) ==
    /\ UNCHANGED <<pvars, svars>>
    /\ \E r \in {DetInitialize(det, config, TRUE, gpio_ok)} :
           /\ det' = r.det
           /\ top' = Observed("initialize", r.res, "none", "none")
    /\ UNCHANGED plat

TStart ==
    /\ UNCHANGED <<pvars, svars>>
    /\ \E r \in {DetStart(det, plat.irq)} :
           /\ plat' = [plat EXCEPT !.irq = r.irq]
           /\ top' = Observed("start", r.res, "none", "none")
    /\ UNCHANGED det

TStop ==
    /\ UNCHANGED <<pvars, svars>>
    /\ \E r \in {DetStop(det, plat.irq)} :
           /\ plat' = [plat EXCEPT !.irq = r.irq]
           /\ top' = Observed("stop", r.res, "none", "none")
    /\ UNCHANGED det

\* poll(); the pin reads return the pin's level or an error
TPoll(read_ok, power_ok) ==
    /\ UNCHANGED <<pvars, svars>>
    /\ LET read == IF read_ok THEN Level(plat.sensor) ELSE "error"
           power == IF power_ok THEN Level(plat.power) ELSE "error"
       IN  /\ det' = Poll(det, plat.now, read, power)
           /\ top' = Observed("poll", IF det.initialized THEN "Ok" ELSE "SystemNotInitialized",
                              read, power)
    /\ UNCHANGED plat

TReset ==
    /\ UNCHANGED <<pvars, svars>>
    /\ \E r \in {Reset(det)} :
           /\ det' = r.det
           /\ top' = Observed("reset", r.res, "none", "none")
    /\ UNCHANGED plat

TAcknowledge ==
    /\ UNCHANGED <<pvars, svars>>
    /\ det' = AcknowledgeTamper(det)
    /\ top' = Observed("acknowledge", "Ok", "none", "none")
    /\ UNCHANGED plat

\* The sensor pin falls; the handler runs if attached and enabled
TFallingEdge ==
    /\ UNCHANGED <<pvars, svars>>
    /\ plat.sensor
    /\ plat' = [plat EXCEPT !.sensor = FALSE]
    /\ det' = IF plat.irq THEN InterruptHandler(det, plat.now) ELSE det
    /\ top' = Observed(IF plat.irq THEN "isr" ELSE "edge", "Ok", "none", "none")

\* The sensor pin rises (the trigger mode is Falling: no handler runs)
TRisingEdge ==
    /\ UNCHANGED <<pvars, svars>>
    /\ ~plat.sensor
    /\ plat' = [plat EXCEPT !.sensor = TRUE]
    /\ top' = Observed("rise", "Ok", "none", "none")
    /\ UNCHANGED det

\* The backup power pin changes level
TPower ==
    /\ UNCHANGED <<pvars, svars>>
    /\ plat' = [plat EXCEPT !.power = ~@]
    /\ top' = Observed("power", "Ok", "none", "none")
    /\ UNCHANGED det

\* Time passes
TTick ==
    /\ UNCHANGED <<pvars, svars>>
    /\ plat.now + TickMs <= MaxTime
    /\ plat' = [plat EXCEPT !.now = @ + TickMs]
    /\ top' = Observed("tick", "Ok", "none", "none")
    /\ UNCHANGED det

TNext ==
    \/ \E config \in TamperConfigs : \E gpio_ok \in BOOLEAN : TInitialize(config, gpio_ok)
    \/ TStart
    \/ TStop
    \/ \E read_ok \in BOOLEAN : \E power_ok \in BOOLEAN : TPoll(read_ok, power_ok)
    \/ TReset
    \/ TAcknowledge
    \/ TFallingEdge
    \/ TRisingEdge
    \/ TPower
    \/ TTick

SpecTamper == InitTamper /\ [][TNext]_vars

-----------------------------------------------------------------------------
(* Properties of the Tamper Monitor                                        *)

\* The last operation was a poll of a detector that was PendingConfirmation
PolledPending == top.name = "poll" /\ DetState(top.pre) = "PendingConfirmation"

\* What poll saw as the time since the trigger
Elapsed == top.now - top.pre.last_trigger_time

\* C6: a poll before debounce_ms has passed since the edge leaves the
\* detector PendingConfirmation; a poll after that with the sensor pin reading
\* low makes it Confirmed; a poll after that with the pin reading high makes
\* it Idle; a poll of a detector that is not PendingConfirmation changes
\* nothing.
C6_Debounce ==
    /\ (PolledPending /\ Elapsed < top.pre.config.debounce_ms) => det = top.pre
    /\ (PolledPending /\ Elapsed >= top.pre.config.debounce_ms /\ top.read = "low") =>
            DetState(det) = "Confirmed"
    /\ (PolledPending /\ Elapsed >= top.pre.config.debounce_ms /\ top.read = "high") =>
            DetState(det) = "Idle"
    /\ (top.name = "poll" /\ DetState(top.pre) # "PendingConfirmation") => det = top.pre

\* C6 happens: a poll after the window, with the sensor still low, has
\* confirmed a tamper whose edge came at a time other than 0
C6_Witness ==
    /\ PolledPending
    /\ top.pre.last_trigger_time > 0
    /\ Elapsed >= top.pre.config.debounce_ms
    /\ top.read = "low"
    /\ det.is_tampered

\* C8: the interrupt handler changes nothing when it runs while the detector
\* is PendingConfirmation or Confirmed; the trigger timestamp stays that of
\* the first edge.
C8_InterruptGuard ==
    (top.name = "isr" /\ DetState(top.pre) # "Idle") => det = top.pre

\* C8 happens: the handler ran for a later edge while the detector was
\* PendingConfirmation, and the timestamp of the first edge is still there
C8_Witness ==
    /\ top.name = "isr"
    /\ DetState(top.pre) = "PendingConfirmation"
    /\ top.now > top.pre.last_trigger_time
    /\ det.last_trigger_time = top.pre.last_trigger_time

\* C9: while the detector is Confirmed, no operation but reset changes the
\* confirmed flag, the tamper type or the tamper timestamp; reset makes the
\* detector Idle with type None, timestamp 0 and no pending trigger;
\* acknowledge_tamper changes nothing.
C9_ConfirmedSticky ==
    /\ (DetState(top.pre) = "Confirmed" /\ top.name # "reset") =>
            /\ det.is_tampered
            /\ det.tamper_type = top.pre.tamper_type
            /\ det.tamper_timestamp = top.pre.tamper_timestamp
    /\ (DetState(top.pre) = "Confirmed" /\ top.name = "reset") =>
            /\ DetState(det) = "Idle"
            /\ det.tamper_type = "None"
            /\ det.tamper_timestamp = 0
            /\ ~det.pending_tamper
    /\ top.name = "acknowledge" => det = top.pre

\* C9 happens: acknowledge_tamper was called on a Confirmed detector, which
\* is still Confirmed
C9_Witness ==
    /\ top.name = "acknowledge"
    /\ DetState(top.pre) = "Confirmed"
    /\ top.pre.tamper_timestamp > 0
    /\ det.is_tampered

-----------------------------------------------------------------------------
(* Tamper Monitor (src/common): the TamperDetector whose interrupt handler *)
(* is handle_tamper_event.  It has no pending flag and no poll.            *)

\* TamperDetector::TamperDetector() with TamperConfig()
NewLegacyDetector ==
    [config |-> TamperConfig(0, 0, DebounceMs),
     is_tampered |-> FALSE,
     tamper_type |-> "None",
     tamper_timestamp |-> 0,
     initialized |-> FALSE]

\* TamperDetector::reset
LegacyReset(d) ==
    IF ~d.initialized THEN [det |-> d, res |-> "SystemNotInitialized"]
    ELSE [det |-> [d EXCEPT !.is_tampered = FALSE, !.tamper_type = "None",
                            !.tamper_timestamp = 0],
          res |-> "Ok"]

\* TamperDetector::handle_tamper_event, called by interrupt_handler.
\* read1 and read2 are what the two reads of the sensor pin return, power
\* what the read of the backup power pin returns, now the clock at entry.
\* Yields the detector, the number of GPIO reads made and the time waited.
HandleTamperEvent(d, now, read1, read2, power) ==
    IF ~d.initialized THEN [det |-> d, gpio_reads |-> 0, waited |-> 0]
    ELSE IF read1 = "error" THEN [det |-> d, gpio_reads |-> 1, waited |-> 0]
    ELSE IF ~(read1 = "low" /\ ~d.is_tampered) THEN [det |-> d, gpio_reads |-> 1, waited |-> 0]
    ELSE IF read2 # "low"
        THEN [det |-> d, gpio_reads |-> 2, waited |-> d.config.debounce_ms]
    ELSE [det |-> [d EXCEPT !.is_tampered = TRUE,
                            !.tamper_type =
                                IF d.config.backup_power_pin > 0 /\ power = "low"
                                THEN "PowerCutAttempt" ELSE "CasingOpened",
                            !.tamper_timestamp = now + d.config.debounce_ms],
          gpio_reads |-> IF d.config.backup_power_pin > 0 THEN 3 ELSE 2,
          waited |-> d.config.debounce_ms]

LObserved(name, res, gpio_reads, waited) ==
    [name |-> name, res |-> res, pre |-> det, now |-> plat.now,
     gpio_reads |-> gpio_reads, waited |-> waited]

InitLegacyTamper ==
    /\ pkt = [idle |-> TRUE]
    /\ wire = [idle |-> TRUE]
    /\ pop = [idle |-> TRUE]
    /\ built = [idle |-> TRUE]
    /\ sys = [idle |-> TRUE]
    /\ sop = [idle |-> TRUE]
    /\ det = NewLegacyDetector
    /\ plat = [now |-> 0, sensor |-> TRUE, power |-> TRUE, irq |-> FALSE]
    /\ top = [name |-> "new", res |-> "Ok", pre |-> NewLegacyDetector, now |-> 0,
              gpio_reads |-> 0, waited |-> 0]

LInitialize(config, gpio_ok) ==
    /\ UNCHANGED <<pvars, svars>>
    /\ \E r \in {DetInitialize(det, config, TRUE, gpio_ok)} :
           /\ det' = r.det
           /\ top' = LObserved("initialize", r.res, 0, 0)
    /\ UNCHANGED plat

LStart ==
    /\ UNCHANGED <<pvars, svars>>
    /\ \E r \in {DetStart(det, plat.irq)} :
           /\ plat' = [plat EXCEPT !.irq = r.irq]
           /\ top' = LObserved("start", r.res, 0, 0)
    /\ UNCHANGED det

LStop ==
    /\ UNCHANGED <<pvars, svars>>
    /\ \E r \in {DetStop(det, plat.irq)} :
           /\ plat' = [plat EXCEPT !.irq = r.irq]
           /\ top' = LObserved("stop", r.res, 0, 0)
    /\ UNCHANGED det

LReset ==
    /\ UNCHANGED <<pvars, svars>>
    /\ \E r \in {LegacyReset(det)} :
           /\ det' = r.det
           /\ top' = LObserved("reset", r.res, 0, 0)
    /\ UNCHANGED plat

\* The sensor pin falls.  If the handler is attached and enabled it runs to
\* its end: the clock advances by the time it waits, and the sensor is high
\* or low again when it reads the pin the second time.
LFallingEdge(read1_ok, still_low, read2_ok, power_ok) ==
    /\ UNCHANGED <<pvars, svars>>
    /\ plat.sensor
    /\ plat.irq => plat.now + det.config.debounce_ms <= MaxTime
    /\ IF plat.irq
       THEN \E r \in {HandleTamperEvent(det, plat.now,
                           IF read1_ok THEN "low" ELSE "error",
                           IF read2_ok THEN Level(~still_low) ELSE "error",
                           IF power_ok THEN Level(plat.power) ELSE "error")} :
               /\ det' = r.det
               /\ plat' = [plat EXCEPT !.now = @ + r.waited,
                                       !.sensor = IF r.waited > 0 THEN ~still_low ELSE FALSE]
               /\ top' = LObserved("isr", "Ok", r.gpio_reads, r.waited)
       ELSE /\ det' = det
            /\ plat' = [plat EXCEPT !.sensor = FALSE]
            /\ top' = LObserved("edge", "Ok", 0, 0)

LRisingEdge ==
    /\ UNCHANGED <<pvars, svars>>
    /\ ~plat.sensor
    /\ plat' = [plat EXCEPT !.sensor = TRUE]
    /\ top' = LObserved("rise", "Ok", 0, 0)
    /\ UNCHANGED det

LPower ==
    /\ UNCHANGED <<pvars, svars>>
    /\ plat' = [plat EXCEPT !.power = ~@]
    /\ top' = LObserved("power", "Ok", 0, 0)
    /\ UNCHANGED det

LTick ==
    /\ UNCHANGED <<pvars, svars>>
    /\ plat.now + TickMs <= MaxTime
    /\ plat' = [plat EXCEPT !.now = @ + TickMs]
    /\ top' = LObserved("tick", "Ok", 0, 0)
    /\ UNCHANGED det

LNext ==
    \/ \E config \in TamperConfigs : \E gpio_ok \in BOOLEAN : LInitialize(config, gpio_ok)
    \/ LStart
    \/ LStop
    \/ LReset
    \/ \E read1_ok \in BOOLEAN : \E still_low \in BOOLEAN : \E read2_ok \in BOOLEAN :
           \E power_ok \in BOOLEAN : LFallingEdge(read1_ok, still_low, read2_ok, power_ok)
    \/ LRisingEdge
    \/ LPower
    \/ LTick

SpecLegacyTamper == InitLegacyTamper /\ [][LNext]_vars

\* C7: an execution of the tamper interrupt handler reads no GPIO pin, does
\* not wait, and leaves the confirmed flag, the tamper type and the tamper
\* timestamp as they were.
C7_HandlerMinimal ==
    top.name = "isr" =>
        /\ top.gpio_reads = 0
        /\ top.waited = 0
        /\ det.is_tampered = top.pre.is_tampered
        /\ det.tamper_type = top.pre.tamper_type
        /\ det.tamper_timestamp = top.pre.tamper_timestamp

-----------------------------------------------------------------------------
(* System Orchestrator: GridShieldSystem with its TamperDetector member    *)
(* (the firmware detector), on the platform above.  A packet the           *)
(* orchestrator builds is kept as its type and its header sequence.        *)

\* Bounds: the intervals the runs configure, in clock milliseconds
HeartbeatIntervalMs == 100
ReadingIntervalMs == 50

SystemConfig(tamper_config, heartbeat_interval_ms, reading_interval_ms) ==
    [tamper_config |-> tamper_config,
     heartbeat_interval_ms |-> heartbeat_interval_ms,
     reading_interval_ms |-> reading_interval_ms]

SystemConfigs ==
    { SystemConfig(TamperConfig(2, 0, DebounceMs), HeartbeatIntervalMs, ReadingIntervalMs) }

\* CrossLayerValidation()
NewValidation ==
    [physical_tamper_detected |-> FALSE,
     network_anomaly_detected |-> FALSE,
     consumption_anomaly_detected |-> FALSE,
     validation_timestamp |-> 0]

\* A requires_investigation that is true for any signal
RequiresInvestigationAny(v) ==
    v.physical_tamper_detected \/ v.network_anomaly_detected \/ v.consumption_anomaly_detected

\* CrossLayerValidation::requires_investigation
RequiresInvestigation(v) ==
    \/ (v.physical_tamper_detected /\ v.consumption_anomaly_detected)
    \/ (v.network_anomaly_detected /\ v.consumption_anomaly_detected)

\* A get_priority without its first branch
GetPriorityNoEmergency(v) ==
    IF v.physical_tamper_detected
       \/ (v.consumption_anomaly_detected /\ v.network_anomaly_detected)
        THEN PR_Critical
    ELSE IF v.consumption_anomaly_detected \/ v.network_anomaly_detected
        THEN PR_High
    ELSE PR_Normal

\* CrossLayerValidation::get_priority
GetPriority(v) ==
    IF v.physical_tamper_detected /\ v.consumption_anomaly_detected
       /\ v.network_anomaly_detected
        THEN PR_Emergency
    ELSE IF v.physical_tamper_detected
            \/ (v.consumption_anomaly_detected /\ v.network_anomaly_detected)
        THEN PR_Critical
    ELSE IF v.consumption_anomaly_detected \/ v.network_anomaly_detected
        THEN PR_High
    ELSE PR_Normal

\* GridShieldSystem::GridShieldSystem() with SystemConfig(); crypto_engine
\* and packet_transport are TRUE when the pointer is not null
NewSystem ==
    [config |-> SystemConfig(TamperConfig(0, 0, DebounceMs), 60000, 5000),
     crypto_engine |-> FALSE,
     packet_transport |-> FALSE,
     device_keypair |-> ClearedKeyPair,
     server_public_key |-> ClearedKeyPair,
     state |-> "Uninitialized",
     mode |-> "Normal",
     initialized |-> FALSE,
     last_heartbeat |-> 0,
     last_reading |-> 0,
     validation_state |-> NewValidation]

\* An initialize without the guard against repetition
SysInitializeUnguarded(s, d, config, fail) ==
    LET t == DetInitialize(d, config.tamper_config, TRUE, fail # "gpio")
    IN  IF t.res # "Ok" /\ t.res # "SystemAlreadyInitialized"
            THEN [sys |-> [s EXCEPT !.config = config, !.state = "Initializing"],
                  det |-> t.det, res |-> t.res]
        ELSE [sys |-> [s EXCEPT !.config = config, !.crypto_engine = TRUE,
                                !.device_keypair = DeviceKey,
                                !.server_public_key = ServerKey,
                                !.packet_transport = TRUE,
                                !.initialized = TRUE, !.state = "Ready"],
              det |-> t.det, res |-> "Ok"]

\* GridShieldSystem::initialize on detector d.  fail names the dependency
\* that fails: "gpio" (tamper_detector_.initialize), "keygen" (the first
\* generate_keypair), "alloc" (new PacketTransport), "comm" (comm->init),
\* "profile" (anomaly_detector_.initialize), or "none".
SysInitialize(s, d, config, fail) ==
    IF s.initialized THEN [sys |-> s, det |-> d, res |-> "SystemAlreadyInitialized"]
    ELSE
        LET s1 == [s EXCEPT !.config = config, !.state = "Initializing"]
            t == DetInitialize(d, config.tamper_config, TRUE, fail # "gpio")
            s2 == [s1 EXCEPT !.crypto_engine = TRUE]
            s3 == [s2 EXCEPT !.device_keypair = DeviceKey, !.server_public_key = ServerKey]
            s4 == [s3 EXCEPT !.packet_transport = TRUE]
        IN  IF t.res # "Ok" THEN [sys |-> s1, det |-> t.det, res |-> t.res]
            ELSE IF fail = "keygen"
                THEN [sys |-> s2, det |-> t.det, res |-> "KeyGenerationFailed"]
            ELSE IF fail = "alloc"
                THEN [sys |-> [s3 EXCEPT !.state = "Error"], det |-> t.det,
                      res |-> "ResourceExhausted"]
            ELSE IF fail = "comm"
                THEN [sys |-> s4, det |-> t.det, res |-> "NetworkDisconnected"]
            ELSE IF fail = "profile"
                THEN [sys |-> s4, det |-> t.det, res |-> "InvalidParameter"]
            ELSE [sys |-> [s4 EXCEPT !.initialized = TRUE, !.state = "Ready"],
                  det |-> t.det, res |-> "Ok"]

\* GridShieldSystem::start
SysStart(s, d, irq, now) ==
    IF ~s.initialized \/ s.state # "Ready" THEN [sys |-> s, irq |-> irq, res |-> "InvalidState"]
    ELSE LET t == DetStart(d, irq)
         IN  IF t.res # "Ok" THEN [sys |-> s, irq |-> t.irq, res |-> t.res]
             ELSE [sys |-> [s EXCEPT !.state = "Operating", !.last_heartbeat = now,
                                     !.last_reading = now],
                   irq |-> t.irq, res |-> "Ok"]

\* GridShieldSystem::stop
SysStop(s, d, irq) ==
    IF s.state # "Operating" THEN [sys |-> s, irq |-> irq, res |-> "InvalidState"]
    ELSE LET t == DetStop(d, irq)
         IN  IF t.res # "Ok" THEN [sys |-> s, irq |-> t.irq, res |-> t.res]
             ELSE [sys |-> [s EXCEPT !.state = "Ready"], irq |-> t.irq, res |-> "Ok"]

\* A shutdown that leaves the key pairs as they are
SysShutdownKeepsKeys(s, d, irq, comm_ok) ==
    LET t == IF s.state = "Operating" THEN SysStop(s, d, irq)
             ELSE [sys |-> s, irq |-> irq, res |-> "Ok"]
    IN  IF t.res # "Ok" THEN t
        ELSE IF s.state # "Uninitialized" /\ ~comm_ok
            THEN [sys |-> t.sys, irq |-> t.irq, res |-> "NetworkDisconnected"]
        ELSE [sys |-> [t.sys EXCEPT !.state = "Shutdown", !.initialized = FALSE],
              irq |-> t.irq, res |-> "Ok"]

\* A shutdown that leaves the initialized flag as it is
SysShutdownKeepsFlag(s, d, irq, comm_ok) ==
    LET t == IF s.state = "Operating" THEN SysStop(s, d, irq)
             ELSE [sys |-> s, irq |-> irq, res |-> "Ok"]
    IN  IF t.res # "Ok" THEN t
        ELSE IF s.state # "Uninitialized" /\ ~comm_ok
            THEN [sys |-> t.sys, irq |-> t.irq, res |-> "NetworkDisconnected"]
        ELSE [sys |-> [t.sys EXCEPT !.device_keypair = ClearedKeyPair,
                                    !.server_public_key = ClearedKeyPair,
                                    !.state = "Shutdown"],
              irq |-> t.irq, res |-> "Ok"]

\* GridShieldSystem::shutdown; comm_ok is the result of comm->shutdown
SysShutdown(s, d, irq, comm_ok) ==
    LET t == IF s.state = "Operating" THEN SysStop(s, d, irq)
             ELSE [sys |-> s, irq |-> irq, res |-> "Ok"]
    IN  IF t.res # "Ok" THEN t
        ELSE IF s.state # "Uninitialized" /\ ~comm_ok
            THEN [sys |-> t.sys, irq |-> t.irq, res |-> "NetworkDisconnected"]
        ELSE [sys |-> [t.sys EXCEPT !.device_keypair = ClearedKeyPair,
                                    !.server_public_key = ClearedKeyPair,
                                    !.state = "Shutdown", !.initialized = FALSE],
              irq |-> t.irq, res |-> "Ok"]

\* The part send_tamper_alert, send_heartbeat and send_meter_reading share:
\* the guard, packet.build on a new SecurePacket, and send_packet.  sign_ok
\* is whether signing succeeds, send_ok whether the transport sends all bytes.
BuildAndSend(s, type, sign_ok, send_ok) ==
    IF ~s.initialized \/ ~s.crypto_engine \/ ~s.packet_transport
        THEN [res |-> "SystemNotInitialized", built |-> <<>>]
    ELSE IF ~s.device_keypair.has_private
        THEN [res |-> "AuthenticationFailed", built |-> <<>>]
    ELSE IF ~sign_ok THEN [res |-> "SignatureInvalid", built |-> <<>>]
    ELSE [res |-> IF send_ok THEN "Ok" ELSE "TransmissionFailed",
          built |-> << [type |-> type, sequence |-> NewPacket.next_sequence] >>]

\* A handle_tamper_event that enters Tampered only once the alert is sent
HandleSystemTamperIfSent(s, now, io) ==
    LET r == BuildAndSend(s, PT_TamperAlert, io.sign_ok, io.alert_ok)
    IN  [sys |-> IF r.res = "Ok"
                 THEN [s EXCEPT !.state = "Tampered", !.mode = "TamperResponse",
                                !.validation_state.physical_tamper_detected = TRUE,
                                !.validation_state.validation_timestamp = now]
                 ELSE s,
         res |-> r.res, built |-> r.built]

\* GridShieldSystem::handle_tamper_event
HandleSystemTamper(s, now, io) ==
    LET r == BuildAndSend(s, PT_TamperAlert, io.sign_ok, io.alert_ok)
    IN  [sys |-> [s EXCEPT !.state = "Tampered", !.mode = "TamperResponse",
                           !.validation_state.physical_tamper_detected = TRUE,
                           !.validation_state.validation_timestamp = now],
         res |-> r.res, built |-> r.built]

\* GridShieldSystem::perform_cross_layer_validation
PerformCrossLayerValidation(s, d, now) ==
    [s EXCEPT !.validation_state.validation_timestamp = now,
              !.validation_state.physical_tamper_detected = d.is_tampered,
              !.validation_state.network_anomaly_detected = FALSE]

\* A process_cycle that returns the error of a failed heartbeat send
ProcessCycleHaltOnFailure(s, d, now, io) ==
    IF s.state # "Operating" /\ s.state # "Tampered"
        THEN [sys |-> s, res |-> "InvalidState", built |-> <<>>, sends |-> <<>>,
              analysed |-> "none"]
    ELSE
        LET hb_due == now - s.last_heartbeat >= s.config.heartbeat_interval_ms
            hb == IF hb_due THEN BuildAndSend(s, PT_Heartbeat, io.sign_ok, io.heartbeat_ok)
                  ELSE [res |-> "Ok", built |-> <<>>]
        IN  [sys |-> IF hb.res = "Ok" THEN PerformCrossLayerValidation(s, d, now) ELSE s,
             res |-> hb.res, built |-> hb.built,
             sends |-> IF hb_due THEN << [type |-> PT_Heartbeat, res |-> hb.res] >> ELSE <<>>,
             analysed |-> "none"]

\* A process_cycle that stamps Cross-Layer Validation before its state guard
ProcessCycleStampsFirst(s, d, now, io) ==
    [sys |-> [s EXCEPT !.validation_state.validation_timestamp = now],
     res |-> "InvalidState", built |-> <<>>, sends |-> <<>>, analysed |-> "none"]

\* A process_cycle that handles the tamper whenever the detector reports one
ProcessCycleAlertsAgain(s, d, now, io) ==
    IF s.state # "Operating" /\ s.state # "Tampered"
        THEN [sys |-> s, res |-> "InvalidState", built |-> <<>>, sends |-> <<>>,
              analysed |-> "none"]
    ELSE
        LET detect == d.is_tampered
            h == IF detect THEN HandleSystemTamper(s, now, io)
                 ELSE [sys |-> s, res |-> "Ok", built |-> <<>>]
            hb_due == now - h.sys.last_heartbeat >= h.sys.config.heartbeat_interval_ms
            hb == IF hb_due THEN BuildAndSend(h.sys, PT_Heartbeat, io.sign_ok, io.heartbeat_ok)
                  ELSE [res |-> "Ok", built |-> <<>>]
            s2 == IF hb_due THEN [h.sys EXCEPT !.last_heartbeat = now] ELSE h.sys
            rd_due == now - s2.last_reading >= s2.config.reading_interval_ms
            can_send == s2.initialized /\ s2.crypto_engine /\ s2.packet_transport
            rd == IF rd_due THEN BuildAndSend(s2, PT_MeterData, io.sign_ok, io.reading_ok)
                  ELSE [res |-> "Ok", built |-> <<>>]
            s3 == IF rd_due
                  THEN [s2 EXCEPT !.last_reading = now,
                                  !.validation_state.consumption_anomaly_detected =
                                      IF can_send /\ io.anomaly THEN TRUE ELSE @]
                  ELSE s2
            sends == (IF detect THEN << [type |-> PT_TamperAlert, res |-> h.res] >> ELSE <<>>)
                     \o (IF hb_due THEN << [type |-> PT_Heartbeat, res |-> hb.res] >> ELSE <<>>)
                     \o (IF rd_due THEN << [type |-> PT_MeterData, res |-> rd.res] >> ELSE <<>>)
        IN  IF h.res # "Ok"
                THEN [sys |-> h.sys, res |-> h.res, built |-> h.built,
                      sends |-> << [type |-> PT_TamperAlert, res |-> h.res] >>,
                      analysed |-> "none"]
            ELSE [sys |-> PerformCrossLayerValidation(s3, d, now), res |-> "Ok",
                  built |-> h.built \o hb.built \o rd.built,
                  sends |-> sends,
                  analysed |-> IF rd_due /\ can_send
                               THEN (IF io.anomaly THEN "high" ELSE "normal")
                               ELSE "none"]

\* GridShieldSystem::process_cycle on detector d at clock now.  io holds
\* what the dependencies return in this call: sign_ok, alert_ok,
\* heartbeat_ok, reading_ok (the sends) and anomaly (the analysis of the
\* reading reports severity High or above).  Yields the orchestrator, the
\* result, the packets built, the result of each send_* call made, and what
\* the analysis of the reading reported ("none" when no reading was analysed).
ProcessCycle(s, d, now, io) ==
    IF s.state # "Operating" /\ s.state # "Tampered"
        THEN [sys |-> s, res |-> "InvalidState", built |-> <<>>, sends |-> <<>>,
              analysed |-> "none"]
    ELSE
        LET detect == d.is_tampered /\ s.state # "Tampered"
            h == IF detect THEN HandleSystemTamper(s, now, io)
                 ELSE [sys |-> s, res |-> "Ok", built |-> <<>>]
            hb_due == now - h.sys.last_heartbeat >= h.sys.config.heartbeat_interval_ms
            hb == IF hb_due THEN BuildAndSend(h.sys, PT_Heartbeat, io.sign_ok, io.heartbeat_ok)
                  ELSE [res |-> "Ok", built |-> <<>>]
            s2 == IF hb_due THEN [h.sys EXCEPT !.last_heartbeat = now] ELSE h.sys
            rd_due == now - s2.last_reading >= s2.config.reading_interval_ms
            can_send == s2.initialized /\ s2.crypto_engine /\ s2.packet_transport
            rd == IF rd_due THEN BuildAndSend(s2, PT_MeterData, io.sign_ok, io.reading_ok)
                  ELSE [res |-> "Ok", built |-> <<>>]
            s3 == IF rd_due
                  THEN [s2 EXCEPT !.last_reading = now,
                                  !.validation_state.consumption_anomaly_detected =
                                      IF can_send /\ io.anomaly THEN TRUE ELSE @]
                  ELSE s2
            sends == (IF detect THEN << [type |-> PT_TamperAlert, res |-> h.res] >> ELSE <<>>)
                     \o (IF hb_due THEN << [type |-> PT_Heartbeat, res |-> hb.res] >> ELSE <<>>)
                     \o (IF rd_due THEN << [type |-> PT_MeterData, res |-> rd.res] >> ELSE <<>>)
        IN  IF h.res # "Ok"
                THEN [sys |-> h.sys, res |-> h.res, built |-> h.built,
                      sends |-> << [type |-> PT_TamperAlert, res |-> h.res] >>,
                      analysed |-> "none"]
            ELSE [sys |-> PerformCrossLayerValidation(s3, d, now), res |-> "Ok",
                  built |-> h.built \o hb.built \o rd.built,
                  sends |-> sends,
                  analysed |-> IF rd_due /\ can_send
                               THEN (IF io.anomaly THEN "high" ELSE "normal")
                               ELSE "none"]

-----------------------------------------------------------------------------
(* The orchestrator as a state machine: the application calls the public   *)
(* operations one at a time, the main loop calls process_cycle again and   *)
(* again; the sensor, the backup power pin and the clock behave as above.  *)

\* What the dependencies may return in one process_cycle call
CycleIO ==
    [sign_ok : BOOLEAN, alert_ok : BOOLEAN, heartbeat_ok : BOOLEAN,
     reading_ok : BOOLEAN, anomaly : BOOLEAN]

InitFailures == {"none", "gpio", "keygen", "alloc", "comm", "profile"}

\* The record of the last orchestrator call; n tells successive calls apart
SObserved(name, res, built_packets, sends, analysed) ==
    [name |-> name, res |-> res, built |-> built_packets, sends |-> sends,
     analysed |-> analysed, n |-> 1 - sop.n]

InitSys ==
    /\ pkt = [idle |-> TRUE]
    /\ wire = [idle |-> TRUE]
    /\ pop = [idle |-> TRUE]
    /\ built = [idle |-> TRUE]
    /\ det = NewDetector
    /\ plat = [now |-> 0, sensor |-> TRUE, power |-> TRUE, irq |-> FALSE]
    /\ top = [name |-> "new", res |-> "Ok", pre |-> NewDetector, now |-> 0,
              read |-> "none", power |-> "none"]
    /\ sys = NewSystem
    /\ sop = [name |-> "new", res |-> "Ok", built |-> <<>>, sends |-> <<>>,
              analysed |-> "none", n |-> 0]

SInitialize(config, fail) ==
    /\ UNCHANGED <<pvars, plat, top>>
    /\ \E r \in {SysInitialize(sys, det, config, fail)} :
           /\ sys' = r.sys
           /\ det' = r.det
           /\ sop' = SObserved("initialize", r.res, <<>>, <<>>, "none")

SStart ==
    /\ UNCHANGED <<pvars, det, top>>
    /\ \E r \in {SysStart(sys, det, plat.irq, plat.now)} :
           /\ sys' = r.sys
           /\ plat' = [plat EXCEPT !.irq = r.irq]
           /\ sop' = SObserved("start", r.res, <<>>, <<>>, "none")

SStop ==
    /\ UNCHANGED <<pvars, det, top>>
    /\ \E r \in {SysStop(sys, det, plat.irq)} :
           /\ sys' = r.sys
           /\ plat' = [plat EXCEPT !.irq = r.irq]
           /\ sop' = SObserved("stop", r.res, <<>>, <<>>, "none")

SShutdown(comm_ok) ==
    /\ UNCHANGED <<pvars, det, top>>
    /\ \E r \in {SysShutdown(sys, det, plat.irq, comm_ok)} :
           /\ sys' = r.sys
           /\ plat' = [plat EXCEPT !.irq = r.irq]
           /\ sop' = SObserved("shutdown", r.res, <<>>, <<>>, "none")

SProcessCycle(io) ==
    /\ UNCHANGED <<pvars, det, plat, top>>
    /\ \E r \in {ProcessCycle(sys, det, plat.now, io)} :
           /\ sys' = r.sys
           /\ sop' = SObserved("process_cycle", r.res, r.built, r.sends, r.analysed)

\* The sensor pin falls; the handler runs if attached and enabled
SFallingEdge ==
    /\ UNCHANGED <<pvars, top, svars>>
    /\ plat.sensor
    /\ plat' = [plat EXCEPT !.sensor = FALSE]
    /\ det' = IF plat.irq THEN InterruptHandler(det, plat.now) ELSE det

\* The sensor pin rises
SRisingEdge ==
    /\ UNCHANGED <<pvars, top, svars, det>>
    /\ ~plat.sensor
    /\ plat' = [plat EXCEPT !.sensor = TRUE]

\* Time passes
STick ==
    /\ UNCHANGED <<pvars, top, svars, det>>
    /\ plat.now + TickMs <= MaxTime
    /\ plat' = [plat EXCEPT !.now = @ + TickMs]

\* main.cpp loop(): process_cycle, then delay
MainLoop == \E io \in CycleIO : SProcessCycle(io)

SNext ==
    \/ \E config \in SystemConfigs : \E fail \in InitFailures : SInitialize(config, fail)
    \/ SStart
    \/ SStop
    \/ \E comm_ok \in BOOLEAN : SShutdown(comm_ok)
    \/ MainLoop
    \/ SFallingEdge
    \/ SRisingEdge
    \/ STick

SpecSys == InitSys /\ [][SNext]_vars

\* loop() runs forever, so process_cycle is called again and again
SpecSysFair == SpecSys /\ WF_vars(MainLoop)

\* The orchestrator is Operating with the interrupt enabled, the handler has
\* set the pending flag, the sensor is still asserted and the debounce
\* window has passed
TamperAwaitingPoll ==
    /\ sys.state = "Operating"
    /\ plat.irq
    /\ DetState(det) = "PendingConfirmation"
    /\ ~plat.sensor
    /\ plat.now - det.last_trigger_time >= det.config.debounce_ms

\* C10: while the orchestrator is Operating and the sensor stays asserted
\* after the handler has set the pending flag, repeated process_cycle calls
\* lead to the orchestrator being Tampered (unless the sensor is released
\* or the orchestrator is stopped first).
C10_TamperReachesOrchestrator ==
    TamperAwaitingPoll ~> (sys.state = "Tampered" \/ plat.sensor \/ sys.state # "Operating")

-----------------------------------------------------------------------------
(* The orchestrator of src/common with the Tamper Monitor it is compiled   *)
(* with there: the TamperDetector whose interrupt handler confirms the     *)
(* tamper itself, so that is_tampered() becomes true while the orchestrator *)
(* runs.                                                                    *)

InitSysLegacy ==
    /\ pkt = [idle |-> TRUE]
    /\ wire = [idle |-> TRUE]
    /\ pop = [idle |-> TRUE]
    /\ built = [idle |-> TRUE]
    /\ top = [idle |-> TRUE]
    /\ det = NewLegacyDetector
    /\ plat = [now |-> 0, sensor |-> TRUE, power |-> TRUE, irq |-> FALSE]
    /\ sys = NewSystem
    /\ sop = [name |-> "new", res |-> "Ok", built |-> <<>>, sends |-> <<>>,
              analysed |-> "none", n |-> 0]

\* The sensor pin falls; handle_tamper_event runs to its end if the handler
\* is attached and enabled
SLFallingEdge(read1_ok, still_low, read2_ok) ==
    /\ UNCHANGED <<pvars, top, svars>>
    /\ plat.sensor
    /\ plat.irq => plat.now + det.config.debounce_ms <= MaxTime
    /\ IF plat.irq
       THEN \E r \in {HandleTamperEvent(det, plat.now,
                           IF read1_ok THEN "low" ELSE "error",
                           IF read2_ok THEN Level(~still_low) ELSE "error",
                           Level(plat.power))} :
               /\ det' = r.det
               /\ plat' = [plat EXCEPT !.now = @ + r.waited,
                                       !.sensor = IF r.waited > 0 THEN ~still_low ELSE FALSE]
       ELSE /\ det' = det
            /\ plat' = [plat EXCEPT !.sensor = FALSE]

SLNext ==
    \/ \E config \in SystemConfigs : \E fail \in InitFailures : SInitialize(config, fail)
    \/ SStart
    \/ SStop
    \/ \E comm_ok \in BOOLEAN : SShutdown(comm_ok)
    \/ MainLoop
    \/ \E read1_ok \in BOOLEAN : \E still_low \in BOOLEAN : \E read2_ok \in BOOLEAN :
           SLFallingEdge(read1_ok, still_low, read2_ok)
    \/ SRisingEdge
    \/ STick

SpecSysLegacy == InitSysLegacy /\ [][SLNext]_vars

-----------------------------------------------------------------------------
(* Properties of the orchestrator                                          *)

\* The step is a call of the named orchestrator operation
SCalled(name) == sop'.name = name /\ sop'.n # sop.n

\* C11: a process_cycle call made in Operating with the Tamper Monitor
\* confirmed leaves the orchestrator Tampered with mode TamperResponse,
\* whether building and sending the Tamper Alert succeeded or failed.
C11_TamperStateIndependentOfNetwork ==
    [][(SCalled("process_cycle") /\ sys.state = "Operating" /\ det.is_tampered)
           => (sys'.state = "Tampered" /\ sys'.mode = "TamperResponse")]_vars

\* A process_cycle call found the tamper, the alert was built but not sent,
\* and the orchestrator is Tampered
C11_Witness ==
    /\ sop.name = "process_cycle"
    /\ det.is_tampered
    /\ Len(sop.sends) = 1
    /\ sop.sends[1] = [type |-> PT_TamperAlert, res |-> "TransmissionFailed"]
    /\ sys.state = "Tampered"
    /\ sys.mode = "TamperResponse"

\* C12: in the process_cycle call that finds the confirmed tamper, the steps
\* after the Tamper Alert are carried out whether or not the alert was built
\* and sent: a heartbeat that is due and a reading that is due are handled
\* (their timers restart at the current time) and Cross-Layer Validation is
\* stamped with the current time.
C12_AlertFailureDoesNotBlockCycle ==
    [][(SCalled("process_cycle") /\ sys.state = "Operating" /\ det.is_tampered)
           => /\ (plat.now - sys.last_heartbeat >= sys.config.heartbeat_interval_ms
                      => sys'.last_heartbeat = plat.now)
              /\ (plat.now - sys.last_reading >= sys.config.reading_interval_ms
                      => sys'.last_reading = plat.now)
              /\ sys'.validation_state.validation_timestamp = plat.now]_vars

\* C13: a process_cycle call in Operating or Tampered that has no new
\* tamper to handle returns success and leaves state and mode as they were,
\* whatever the heartbeat send and the meter-reading send return; the
\* timers of what was due restart and Cross-Layer Validation is stamped
\* with the current time.
C13_PeriodicFailuresDoNotHalt ==
    [][(/\ SCalled("process_cycle")
        /\ sys.state \in {"Operating", "Tampered"}
        /\ ~(det.is_tampered /\ sys.state # "Tampered"))
           => /\ sop'.res = "Ok"
              /\ sys'.state = sys.state
              /\ sys'.mode = sys.mode
              /\ (plat.now - sys.last_heartbeat >= sys.config.heartbeat_interval_ms
                      => sys'.last_heartbeat = plat.now)
              /\ (plat.now - sys.last_reading >= sys.config.reading_interval_ms
                      => sys'.last_reading = plat.now)
              /\ sys'.validation_state.validation_timestamp = plat.now]_vars

\* A process_cycle call in which the heartbeat send failed, the reading
\* send after it was still made and failed too, and which returned success
C13_Witness ==
    /\ sop.name = "process_cycle"
    /\ sop.res = "Ok"
    /\ sop.sends = << [type |-> PT_Heartbeat, res |-> "TransmissionFailed"],
                      [type |-> PT_MeterData, res |-> "TransmissionFailed"] >>
    /\ sys.state \in {"Operating", "Tampered"}
    /\ sys.last_heartbeat = plat.now
    /\ sys.last_reading = plat.now

-----------------------------------------------------------------------------
(* The sequence counter of one SecurePacket: build calls on one object,    *)
(* each built packet handed to the transport, which sends it or fails;     *)
(* parse calls on the same object in between.  pop.seqs lists, for every   *)
(* build that got as far as stamping the header, the sequence it stamped   *)
(* and whether it returned Ok.                                             *)

\* Bound: the number of build calls in a run
MaxSeqBuilds == 3

\* next_sequence_ at the start of a run: as constructed, and as it is after
\* 2^32 - 2 earlier builds
SeqStarts == { Zeros(4), <<254, 255, 255, 255>> }

\* a < b for two uint32_t kept as their four little-endian bytes
Less32(a, b) ==
    \/ a[4] < b[4]
    \/ a[4] = b[4] /\ a[3] < b[3]
    \/ a[4] = b[4] /\ a[3] = b[3] /\ a[2] < b[2]
    \/ a[4] = b[4] /\ a[3] = b[3] /\ a[2] = b[2] /\ a[1] < b[1]

InitSequence ==
    /\ det = [idle |-> TRUE]
    /\ plat = [idle |-> TRUE]
    /\ top = [idle |-> TRUE]
    /\ sys = [idle |-> TRUE]
    /\ sop = [idle |-> TRUE]
    /\ wire = [idle |-> TRUE]
    /\ built = [idle |-> TRUE]
    /\ pkt \in { [NewPacket EXCEPT !.next_sequence = b] : b \in SeqStarts }
    /\ pop = [name |-> "new", res |-> "Ok", seqs |-> <<>>, nb |-> 0, np |-> 0,
              unsent |-> FALSE, payload_len |-> 0, has_private |-> TRUE]

\* packet.build(...); payload_len and has_private are those of the call
QBuild(in) ==
    /\ UNCHANGED <<tvars, svars, wire, built>>
    /\ pop.nb < MaxSeqBuilds
    /\ \E r \in {Build(pkt, in)} :
           /\ pkt' = r.pkt
           /\ pop' = [pop EXCEPT !.name = "build", !.res = r.res, !.nb = @ + 1,
                                 !.payload_len = in.payload_len,
                                 !.has_private = in.key.has_private,
                                 !.seqs = IF r.res \in {"BufferOverflow", "AuthenticationFailed"}
                                          THEN @
                                          ELSE Append(@, [seq |-> HdrSequence(r.pkt.header),
                                                          ok |-> r.res = "Ok"])]

\* transport.send_packet(packet, ...) right after a build; comm_ok is
\* whether comm sends all the bytes
QSend(comm_ok) ==
    /\ UNCHANGED <<tvars, svars, wire, built, pkt>>
    /\ pop.name = "build"
    /\ pop' = [pop EXCEPT !.name = "send",
                          !.res = IF ~pkt.is_valid THEN "InvalidState"
                                  ELSE IF comm_ok THEN "Ok" ELSE "TransmissionFailed",
                          !.unsent = @ \/ ~pkt.is_valid \/ ~comm_ok]

\* packet.parse(buffer, buffer_len, crypto, server_keypair) of a frame that
\* no build produced
QParse(raw) ==
    /\ UNCHANGED <<tvars, svars, wire, built>>
    /\ pop.np < 1
    /\ \E r \in {Parse(pkt, raw, ServerKey)} :
           /\ pkt' = r.pkt
           /\ pop' = [pop EXCEPT !.name = "parse", !.res = r.res, !.np = @ + 1]

QNext ==
    \/ \E in \in BuildInputs : QBuild(in)
    \/ \E comm_ok \in BOOLEAN : QSend(comm_ok)
    \/ \E raw \in RawFrames : QParse(raw)

SpecSequence == InitSequence /\ [][QNext]_vars

\* C14 as stated: the sequence values of successive successful builds on
\* one SecurePacket are strictly increasing.
C14_SequenceStrictlyIncreasing ==
    \A i \in 1..Len(pop.seqs) : \A j \in 1..Len(pop.seqs) :
        (i < j /\ pop.seqs[i].ok /\ pop.seqs[j].ok) => Less32(pop.seqs[i].seq, pop.seqs[j].seq)

\* C14: every build that stamps the header takes the sequence one above
\* that of the build before it, modulo 2^32, whether or not the packets
\* were sent; the values are strictly increasing up to 2^32 - 1, after
\* which the counter starts again at 0.
C14_SequenceIncrementsMod32 ==
    \A i \in 1..(Len(pop.seqs) - 1) :
        /\ pop.seqs[i + 1].seq = Inc32(pop.seqs[i].seq)
        /\ (pop.seqs[i].seq # <<255, 255, 255, 255>>
               => Less32(pop.seqs[i].seq, pop.seqs[i + 1].seq))
        /\ (pop.seqs[i].seq = <<255, 255, 255, 255>> => pop.seqs[i + 1].seq = Zeros(4))

\* Three builds, the first two at the top of the counter's range, a send
\* that failed in between
C14_Witness ==
    /\ Len(pop.seqs) = 3
    /\ pop.unsent
    /\ pop.seqs[1].seq = <<254, 255, 255, 255>>
    /\ pop.seqs[3].seq = Zeros(4)
    /\ pop.seqs[1].ok /\ pop.seqs[3].ok

-----------------------------------------------------------------------------
(* Properties of the orchestrator's packets                                *)

\* C15: the packets the orchestrator builds in one process_cycle call
\* (Tamper Alert, Heartbeat, Meter Data, in this order) carry strictly
\* increasing header sequence values.
C15_DeviceSequenceIncreases ==
    \A i \in 1..Len(sop.built) : \A j \in 1..Len(sop.built) :
        i < j => Less32(sop.built[i].sequence, sop.built[j].sequence)

-----------------------------------------------------------------------------
(* Cross-Layer Validation on its own: one CrossLayerValidation value whose *)
(* fields are assigned as the orchestrator assigns them, and on which      *)
(* get_priority and requires_investigation are called.  sys holds the      *)
(* value, sop the last call, the flags it was made on and what it         *)
(* returned.                                                               *)

\* The three flags as <<physical tamper, network anomaly, consumption anomaly>>
Flags(v) ==
    <<v.physical_tamper_detected, v.network_anomaly_detected,
      v.consumption_anomaly_detected>>

InitValidation ==
    /\ pkt = [idle |-> TRUE]
    /\ wire = [idle |-> TRUE]
    /\ pop = [idle |-> TRUE]
    /\ built = [idle |-> TRUE]
    /\ det = [idle |-> TRUE]
    /\ plat = [idle |-> TRUE]
    /\ top = [idle |-> TRUE]
    /\ sys \in { [NewValidation EXCEPT !.physical_tamper_detected = t,
                                       !.network_anomaly_detected = n,
                                       !.consumption_anomaly_detected = c] :
                     t \in BOOLEAN, n \in BOOLEAN, c \in BOOLEAN }
    /\ sop = [name |-> "new", flags |-> <<FALSE, FALSE, FALSE>>, priority |-> 0,
              investigate |-> FALSE]

\* validation_state_.physical_tamper_detected = ...
VSetPhysical(b) ==
    /\ UNCHANGED <<pvars, tvars, sop>>
    /\ sys' = [sys EXCEPT !.physical_tamper_detected = b]

\* validation_state_.network_anomaly_detected = ...
VSetNetwork(b) ==
    /\ UNCHANGED <<pvars, tvars, sop>>
    /\ sys' = [sys EXCEPT !.network_anomaly_detected = b]

\* validation_state_.consumption_anomaly_detected = ...
VSetConsumption(b) ==
    /\ UNCHANGED <<pvars, tvars, sop>>
    /\ sys' = [sys EXCEPT !.consumption_anomaly_detected = b]

\* validation_state_.validation_timestamp = get_timestamp_ms()
VStamp(now) ==
    /\ UNCHANGED <<pvars, tvars, sop>>
    /\ sys' = [sys EXCEPT !.validation_timestamp = now]

\* validation_state_.get_priority()
VGetPriority ==
    /\ UNCHANGED <<pvars, tvars, sys>>
    /\ sop' = [name |-> "get_priority", flags |-> Flags(sys),
               priority |-> GetPriority(sys), investigate |-> FALSE]

\* validation_state_.requires_investigation()
VRequiresInvestigation ==
    /\ UNCHANGED <<pvars, tvars, sys>>
    /\ sop' = [name |-> "requires_investigation", flags |-> Flags(sys),
               priority |-> 0, investigate |-> RequiresInvestigation(sys)]

VNext ==
    \/ \E b \in BOOLEAN : VSetPhysical(b)
    \/ \E b \in BOOLEAN : VSetNetwork(b)
    \/ \E b \in BOOLEAN : VSetConsumption(b)
    \/ \E now \in {k * TickMs : k \in 0..(MaxTime \div TickMs)} : VStamp(now)
    \/ VGetPriority
    \/ VRequiresInvestigation

SpecValidation == InitValidation /\ [][VNext]_vars

\* C16: get_priority returns, for <<physical tamper, network anomaly,
\* consumption anomaly>>: all three set, Emergency; physical tamper without
\* both of the others, or network and consumption anomaly without tamper,
\* Critical; one anomaly alone, High; none, Normal.  ("Physical tamper alone"
\* is read as: physical tamper is enough, whatever the other two are, short
\* of all three.)
C16_EscalationTable ==
    sop.name = "get_priority" =>
        sop.priority =
            CASE sop.flags = <<TRUE, TRUE, TRUE>> -> PR_Emergency
              [] sop.flags = <<TRUE, TRUE, FALSE>> -> PR_Critical
              [] sop.flags = <<TRUE, FALSE, TRUE>> -> PR_Critical
              [] sop.flags = <<TRUE, FALSE, FALSE>> -> PR_Critical
              [] sop.flags = <<FALSE, TRUE, TRUE>> -> PR_Critical
              [] sop.flags = <<FALSE, TRUE, FALSE>> -> PR_High
              [] sop.flags = <<FALSE, FALSE, TRUE>> -> PR_High
              [] sop.flags = <<FALSE, FALSE, FALSE>> -> PR_Normal

\* get_priority was called with all three signals set
C16_Witness ==
    /\ sop.name = "get_priority"
    /\ sop.flags = <<TRUE, TRUE, TRUE>>
    /\ sop.priority = PR_Emergency

\* C17: requires_investigation is true exactly when the consumption anomaly
\* is set together with the physical tamper or with the network anomaly; it
\* is never true without a consumption anomaly.
C17_RequiresInvestigation ==
    sop.name = "requires_investigation" =>
        /\ sop.investigate <=> sop.flags \in { <<TRUE, FALSE, TRUE>>,
                                                <<FALSE, TRUE, TRUE>>,
                                                <<TRUE, TRUE, TRUE>> }
        /\ (sop.investigate => sop.flags[3])

\* requires_investigation was called with tamper and network anomaly set
\* but no consumption anomaly, and returned false
C17_Witness ==
    /\ sop.name = "requires_investigation"
    /\ sop.flags = <<TRUE, TRUE, FALSE>>
    /\ ~sop.investigate

-----------------------------------------------------------------------------
(* Properties of the orchestrator's Cross-Layer Validation                 *)

\* C18: at the end of a process_cycle call that returns success the
\* physical-tamper flag equals the Tamper Monitor's confirmed status, and
\* the consumption-anomaly flag is clear when the reading analysed in this
\* call reported a severity below High.
C18_ValidationDerived ==
    [][(SCalled("process_cycle") /\ sop'.res = "Ok")
           => /\ sys'.validation_state.physical_tamper_detected = det.is_tampered
              /\ (sop'.analysed = "normal"
                     => ~sys'.validation_state.consumption_anomaly_detected)]_vars

-----------------------------------------------------------------------------
(* Properties of initialize                                                *)

\* C19: an initialize call on an orchestrator that is not initialized and
\* in which a dependency fails returns that error and leaves the
\* orchestrator in state Error and not initialized.
C19_InitFailureIsError ==
    [][(SCalled("initialize") /\ ~sys.initialized /\ sop'.res # "Ok")
           => (sys'.state = "Error" /\ ~sys'.initialized)]_vars

\* C20: an initialize call on an orchestrator that is initialized returns
\* SystemAlreadyInitialized and changes neither the orchestrator (state,
\* configuration, key pairs) nor the Tamper Monitor; TamperDetector::initialize
\* on an initialized detector, which the orchestrator calls when it is
\* initialized again after a shutdown, returns SystemAlreadyInitialized and
\* leaves the detector as it was.
C20_InitializeGuarded ==
    [][/\ (SCalled("initialize") /\ sys.initialized)
            => (sop'.res = "SystemAlreadyInitialized" /\ sys' = sys /\ det' = det)
       /\ (SCalled("initialize") /\ ~sys.initialized /\ det.initialized)
            => (sop'.res = "SystemAlreadyInitialized" /\ det' = det)]_vars

\* initialize was called on an orchestrator that is Operating
C20_Witness ==
    /\ sop.name = "initialize"
    /\ sop.res = "SystemAlreadyInitialized"
    /\ sys.initialized
    /\ sys.state = "Operating"
    /\ sys.device_keypair = DeviceKey


\* C21: Shutdown is terminal: once the state is Shutdown, no operation
\* (initialize, start, stop, process_cycle, shutdown) moves it to any other
\* state.
C21_ShutdownTerminal ==
    [][sys.state = "Shutdown" => sys'.state = "Shutdown"]_vars


-----------------------------------------------------------------------------
(* The orchestrator with every operation but shutdown called again and     *)
(* again: the caller of the public interface keeps trying initialize,      *)
(* start, stop and process_cycle.                                          *)

AnyInitialize ==
    \E config \in SystemConfigs : \E fail \in InitFailures : SInitialize(config, fail)

SpecSysLegacyFair ==
    /\ SpecSysLegacy
    /\ WF_vars(AnyInitialize)
    /\ WF_vars(SStart)
    /\ WF_vars(SStop)
    /\ WF_vars(MainLoop)

\* C22: the orchestrator moves from Operating to Tampered in process_cycle
\* on a confirmed tamper, and from Tampered, once the sensor is released,
\* the operations other than shutdown bring it back to Operating: a Tampered
\* orchestrator whose sensor is released leads to Operating (or to Shutdown,
\* if the caller shuts it down instead).
C22_TamperedReturnsToOperating ==
    (sys.state = "Tampered" /\ plat.sensor)
        ~> (sys.state = "Operating" \/ sys.state = "Shutdown")

\* Every step from Tampered ends in Tampered or Shutdown
TamperedLeavesOnlyByShutdown ==
    [][sys.state = "Tampered" => sys'.state \in {"Tampered", "Shutdown"}]_vars

\* process_cycle moved the orchestrator from Operating to Tampered
OperatingToTampered ==
    /\ sop.name = "process_cycle"
    /\ sys.state = "Tampered"
    /\ sys.mode = "TamperResponse"


\* Both key pairs of the orchestrator s hold no key material
KeysErased(s) ==
    /\ s.device_keypair = ClearedKeyPair
    /\ s.server_public_key = ClearedKeyPair

\* C23: a successful shutdown leaves both key pairs erased (flags false,
\* buffers zero) and the state Shutdown, and in no state reached by a step
\* is the orchestrator in Shutdown while a key pair holds key material.
C23_ShutdownErasesKeys ==
    [][/\ (SCalled("shutdown") /\ sop'.res = "Ok")
            => (sys'.state = "Shutdown" /\ KeysErased(sys'))
       /\ sys'.state = "Shutdown" => KeysErased(sys')]_vars

\* A successful shutdown of an orchestrator that had generated its keys
C23_Witness ==
    /\ sop.name = "shutdown"
    /\ sop.res = "Ok"
    /\ sys.state = "Shutdown"
    /\ sys.packet_transport
    /\ KeysErased(sys)


-----------------------------------------------------------------------------
(* ECCKeyPair: generate, load, read and secure-erase of one key pair       *)

\* What get_private_key and get_public_key return for "no key" (nullptr)
NoKey == <<>>

\* ECCKeyPair::generate; s is the seed the RNG yields, ok whether
\* uECC_make_key succeeds (it writes the buffers only when it does)
Generate(kp, s, ok) ==
    IF ~ok THEN [kp |-> kp, res |-> "KeyGenerationFailed"]
    ELSE [kp |-> [kp EXCEPT !.private_key = GeneratedKeyPair(s).private_key,
                            !.public_key = GeneratedKeyPair(s).public_key,
                            !.has_private = TRUE, !.has_public = TRUE],
          res |-> "Ok"]

\* ECCKeyPair::load_private_key(key, Len(key))
LoadPrivateKey(kp, key) ==
    IF Len(key) # ECC_KEY_SIZE THEN [kp |-> kp, res |-> "InvalidParameter"]
    ELSE [kp |-> [kp EXCEPT !.private_key = key, !.has_private = TRUE], res |-> "Ok"]

\* ECCKeyPair::load_public_key(key, Len(key))
LoadPublicKey(kp, key) ==
    IF Len(key) # ECC_PUBLIC_KEY_SIZE THEN [kp |-> kp, res |-> "InvalidParameter"]
    ELSE [kp |-> [kp EXCEPT !.public_key = key, !.has_public = TRUE], res |-> "Ok"]

\* ECCKeyPair::get_private_key
GetPrivateKey(kp) == IF kp.has_private THEN kp.private_key ELSE NoKey

\* ECCKeyPair::get_public_key
GetPublicKey(kp) == IF kp.has_public THEN kp.public_key ELSE NoKey

\* A clear that resets the flags and leaves the buffers as they are
ClearFlagsOnly(kp) ==
    [kp EXCEPT !.has_private = FALSE, !.has_public = FALSE]

\* ECCKeyPair::clear: every byte of both buffers is overwritten with zero,
\* then both flags are reset
Clear(kp) ==
    [kp EXCEPT !.private_key = Zeros(ECC_KEY_SIZE),
               !.public_key = Zeros(ECC_PUBLIC_KEY_SIZE),
               !.has_private = FALSE, !.has_public = FALSE]

\* Keys a caller passes to load_private_key / load_public_key: of the right
\* length, and one byte short
PrivateKeyInputs == {ServerKey.private_key, SubSeq(ServerKey.private_key, 1, ECC_KEY_SIZE - 1)}
PublicKeyInputs == {ServerKey.public_key, SubSeq(ServerKey.public_key, 1, ECC_PUBLIC_KEY_SIZE - 1)}

\* The record of the last key pair call: the pair before it (pre), the
\* key the call returned (out); n tells successive calls apart
KObserved(name, res, out) ==
    [name |-> name, res |-> res, pre |-> pkt, out |-> out, n |-> 1 - pop.n]

\* ECCKeyPair::ECCKeyPair() calls clear()
InitKeyPair ==
    /\ pkt = Clear(ClearedKeyPair)
    /\ pop = [name |-> "new", res |-> "Ok", pre |-> ClearedKeyPair, out |-> NoKey, n |-> 0]
    /\ wire = [idle |-> TRUE]
    /\ built = [idle |-> TRUE]
    /\ det = [idle |-> TRUE]
    /\ plat = [idle |-> TRUE]
    /\ top = [idle |-> TRUE]
    /\ sys = [idle |-> TRUE]
    /\ sop = [idle |-> TRUE]

KGenerate(s, ok) ==
    /\ UNCHANGED <<wire, built, tvars, svars>>
    /\ \E r \in {Generate(pkt, s, ok)} :
           /\ pkt' = r.kp
           /\ pop' = KObserved("generate", r.res, NoKey)

KLoadPrivateKey(key) ==
    /\ UNCHANGED <<wire, built, tvars, svars>>
    /\ \E r \in {LoadPrivateKey(pkt, key)} :
           /\ pkt' = r.kp
           /\ pop' = KObserved("load_private_key", r.res, NoKey)

KLoadPublicKey(key) ==
    /\ UNCHANGED <<wire, built, tvars, svars>>
    /\ \E r \in {LoadPublicKey(pkt, key)} :
           /\ pkt' = r.kp
           /\ pop' = KObserved("load_public_key", r.res, NoKey)

KGetPrivateKey ==
    /\ UNCHANGED <<pkt, wire, built, tvars, svars>>
    /\ pop' = KObserved("get_private_key", "Ok", GetPrivateKey(pkt))

KGetPublicKey ==
    /\ UNCHANGED <<pkt, wire, built, tvars, svars>>
    /\ pop' = KObserved("get_public_key", "Ok", GetPublicKey(pkt))

KClear ==
    /\ UNCHANGED <<wire, built, tvars, svars>>
    /\ pkt' = Clear(pkt)
    /\ pop' = KObserved("clear", "Ok", NoKey)

\* The message the engine is asked to sign and to verify
KeyMessage == <<71, 83, 1>>

\* Signatures a caller passes to verify: one the server key made over the
\* message, and the same with its last byte changed
SignatureInputs ==
    LET good == EccSign(ServerKey.private_key, Sha256(KeyMessage), 5)
    IN  {good, [good EXCEPT ![ECC_SIGNATURE_SIZE] = (@ + 1) % 256]}

\* What verify hands back: <<1>> accepted, <<0>> rejected, nothing on error
Verdict(r) == IF r.err # "Ok" THEN NoKey ELSE IF r.ok THEN <<1>> ELSE <<0>>

\* CryptoEngine::sign with the key pair; out is signature_out
KSign(rng_ok, k) ==
    /\ UNCHANGED <<pkt, wire, built, tvars, svars>>
    /\ \E r \in {Sign(pkt, KeyMessage, rng_ok, k)} :
           pop' = KObserved("sign", r.err, r.sig)

\* CryptoEngine::verify with the key pair
KVerify(signature) ==
    /\ UNCHANGED <<pkt, wire, built, tvars, svars>>
    /\ \E r \in {Verify(pkt, KeyMessage, signature)} :
           pop' = KObserved("verify", r.err, Verdict(r))

KNext ==
    \/ \E s \in {1, 2} : \E ok \in BOOLEAN : KGenerate(s, ok)
    \/ \E key \in PrivateKeyInputs : KLoadPrivateKey(key)
    \/ \E key \in PublicKeyInputs : KLoadPublicKey(key)
    \/ KGetPrivateKey
    \/ KGetPublicKey
    \/ KClear
    \/ \E rng_ok \in BOOLEAN : KSign(rng_ok, 5)
    \/ \E signature \in SignatureInputs : KVerify(signature)

SpecKeyPair == InitKeyPair /\ [][KNext]_vars

\* The step is a call of the named key pair operation
KCalled(name) == pop'.name = name /\ pop'.n # pop.n

\* All bytes of both key buffers are zero and both flags are false
Erased(kp) ==
    /\ ~kp.has_private
    /\ ~kp.has_public
    /\ \A i \in 1..ECC_KEY_SIZE : kp.private_key[i] = 0
    /\ \A i \in 1..ECC_PUBLIC_KEY_SIZE : kp.public_key[i] = 0

\* C24: clear is an idempotent secure erase: whatever the key pair held
\* (nothing, loaded keys, generated keys), after clear() both flags are
\* false and both buffers are all zero, a second clear() gives exactly the
\* same key pair, and get_private_key and get_public_key return no key.
C24_ClearIdempotentErase ==
    [][/\ KCalled("clear") => (Erased(pkt') /\ Clear(pkt') = pkt')
       /\ (KCalled("clear") /\ pop.name = "clear") => pkt' = pkt
       /\ (KCalled("get_private_key") /\ Erased(pkt)) => pop'.out = NoKey
       /\ (KCalled("get_public_key") /\ Erased(pkt)) => pop'.out = NoKey]_vars

\* clear() was called on a key pair that held a generated private key and
\* a loaded public key
C24_Witness ==
    /\ pop.name = "clear"
    /\ pop.pre.has_private
    /\ pop.pre.public_key = ServerKey.public_key
    /\ pop.pre.private_key = DeviceKey.private_key
    /\ Erased(pkt)


-----------------------------------------------------------------------------
(* CryptoEngine: AES-256-GCM.  GCM<AES256> is a library outside the        *)
(* repository; its stand-in is a counter-mode cipher (the output is the    *)
(* input XOR a key stream of key and nonce, so decrypt undoes encrypt) with *)
(* a tag over key, nonce and ciphertext that every single-byte change of   *)
(* the ciphertext changes.                                                 *)

AES_KEY_SIZE == 32
NONCE_SIZE == 12
AES_GCM_TAG_SIZE == 16
DecryptBufferSize == 64
MaxFlips == 1

\* One bit of a ^ b: w is the weight of the bit
XorBit(a, b, w) == (((a \div w) + (b \div w)) % 2) * w

\* a ^ b on bytes
Xor(a, b) ==
    XorBit(a, b, 1) + XorBit(a, b, 2) + XorBit(a, b, 4) + XorBit(a, b, 8)
        + XorBit(a, b, 16) + XorBit(a, b, 32) + XorBit(a, b, 64) + XorBit(a, b, 128)

\* gcm.setKey, gcm.setIV, then gcm.encrypt / gcm.decrypt of data
GcmCrypt(key, nonce, data) ==
    SubSeq([i \in 1..Len(data) |->
               Xor(data[i], (3 * key[((i - 1) % AES_KEY_SIZE) + 1]
                             + 5 * nonce[((i - 1) % NONCE_SIZE) + 1] + 7 * i) % 256)],
           1, Len(data))

\* gcm.computeTag after the ciphertext has been processed
GcmTag(key, nonce, ciphertext) ==
    Bytes(Sha256(key \o nonce \o ciphertext), 1, AES_GCM_TAG_SIZE)

\* gcm.checkTag
GcmCheckTag(key, nonce, ciphertext, tag) == GcmTag(key, nonce, ciphertext) = tag

\* CryptoEngine::encrypt_aes_gcm (USE_EMBEDDED_CRYPTO); pt_len = Len(plaintext)
EncryptAesGcm(key, nonce, plaintext) ==
    IF Len(plaintext) = 0
        THEN [res |-> "InvalidParameter", len |-> 0, ciphertext |-> <<>>, tag |-> <<>>]
    ELSE LET ct == GcmCrypt(key, nonce, plaintext)
         IN  [res |-> "Ok", len |-> Len(plaintext), ciphertext |-> ct,
              tag |-> GcmTag(key, nonce, ct)]

\* A decrypt that never looks at the tag
DecryptAesGcmUnchecked(key, nonce, ciphertext, ct_len, tag, plaintext_out) ==
    IF ct_len = 0
        THEN [res |-> "InvalidParameter", len |-> 0, plaintext_out |-> plaintext_out]
    ELSE [res |-> "Ok", len |-> ct_len,
          plaintext_out |-> MemCpy(plaintext_out, 1,
                                   GcmCrypt(key, nonce, Bytes(ciphertext, 1, ct_len)))]

\* CryptoEngine::decrypt_aes_gcm (USE_EMBEDDED_CRYPTO): gcm.decrypt writes
\* plaintext_out, then the tag is checked
DecryptAesGcm(key, nonce, ciphertext, ct_len, tag, plaintext_out) ==
    IF ct_len = 0
        THEN [res |-> "InvalidParameter", len |-> 0, plaintext_out |-> plaintext_out]
    ELSE LET ct == Bytes(ciphertext, 1, ct_len)
             out == MemCpy(plaintext_out, 1, GcmCrypt(key, nonce, ct))
         IN  IF ~GcmCheckTag(key, nonce, ct, tag)
                 THEN [res |-> "IntegrityViolation", len |-> 0, plaintext_out |-> out]
             ELSE [res |-> "Ok", len |-> ct_len, plaintext_out |-> out]

AesKeyA == SubSeq([i \in 1..AES_KEY_SIZE |-> (11 * i + 3) % 256], 1, AES_KEY_SIZE)
AesKeyB == SubSeq([i \in 1..AES_KEY_SIZE |-> (13 * i + 5) % 256], 1, AES_KEY_SIZE)
AesKeys == {AesKeyA, AesKeyB}
NonceA == SubSeq([i \in 1..NONCE_SIZE |-> (17 * i + 1) % 256], 1, NONCE_SIZE)

\* "Critical Data", "Tamper This" and the empty plaintext
Plaintexts ==
    {<<67, 114, 105, 116, 105, 99, 97, 108, 32, 68, 97, 116, 97>>,
     <<84, 97, 109, 112, 101, 114, 32, 84, 104, 105, 115>>,
     <<>>}

\* The bit patterns a changed byte is XORed with
FlipMasks == {255, 1}

\* The bytes that get changed: first, middle and last of the tag, and of
\* the ciphertext (the shorter one is 11 bytes long)
TagFlipPositions == {1, 8, AES_GCM_TAG_SIZE}
CiphertextFlipPositions == {1, 7, 11}

\* The caller's output buffer before any decrypt
FreshBuffer == SubSeq([i \in 1..DecryptBufferSize |-> 170], 1, DecryptBufferSize)

\* The record of the last AES-GCM call; n tells successive calls apart
GObserved(name, res, len, key) ==
    [name |-> name, res |-> res, len |-> len, key |-> key, n |-> 1 - pop.n]

\* pkt is what the sender encrypted, wire the ciphertext and tag on their
\* way to the receiver (sent_* as encrypt produced them), built the
\* receiver's plaintext_out buffer
InitGcm ==
    /\ pkt = [key |-> AesKeyA, nonce |-> NonceA, plaintext |-> <<>>]
    /\ wire = [ciphertext |-> <<>>, tag |-> Zeros(AES_GCM_TAG_SIZE),
               sent_ciphertext |-> <<>>, sent_tag |-> Zeros(AES_GCM_TAG_SIZE), flips |-> 0]
    /\ built = FreshBuffer
    /\ pop = [name |-> "new", res |-> "Ok", len |-> 0, key |-> AesKeyA, n |-> 0]
    /\ det = [idle |-> TRUE]
    /\ plat = [idle |-> TRUE]
    /\ top = [idle |-> TRUE]
    /\ sys = [idle |-> TRUE]
    /\ sop = [idle |-> TRUE]

\* encrypt_aes_gcm into the ciphertext and tag buffers; the receiver takes a
\* new output buffer for the new message
GEncrypt(key, plaintext) ==
    /\ UNCHANGED <<tvars, svars>>
    /\ \E r \in {EncryptAesGcm(key, NonceA, plaintext)} :
           /\ pop' = GObserved("encrypt_aes_gcm", r.res, r.len, key)
           /\ IF r.res = "Ok"
              THEN /\ pkt' = [key |-> key, nonce |-> NonceA, plaintext |-> plaintext]
                   /\ wire' = [ciphertext |-> r.ciphertext, tag |-> r.tag,
                               sent_ciphertext |-> r.ciphertext, sent_tag |-> r.tag,
                               flips |-> 0]
                   /\ built' = FreshBuffer
              ELSE UNCHANGED <<pkt, wire, built>>

\* tag[i] ^= mask
GFlipTag(i, mask) ==
    /\ UNCHANGED <<pkt, pop, built, tvars, svars>>
    /\ wire.flips < MaxFlips
    /\ wire' = [wire EXCEPT !.tag[i] = Xor(@, mask), !.flips = @ + 1]

\* ciphertext[i] ^= mask
GFlipCiphertext(i, mask) ==
    /\ UNCHANGED <<pkt, pop, built, tvars, svars>>
    /\ wire.flips < MaxFlips
    /\ i <= Len(wire.ciphertext)
    /\ wire' = [wire EXCEPT !.ciphertext[i] = Xor(@, mask), !.flips = @ + 1]

\* decrypt_aes_gcm(key, nonce, ciphertext, ct_len, tag, plaintext_out)
GDecrypt(key, ct_len) ==
    /\ UNCHANGED <<pkt, wire, tvars, svars>>
    /\ ct_len <= Len(wire.ciphertext)
    /\ \E r \in {DecryptAesGcm(key, pkt.nonce, wire.ciphertext, ct_len, wire.tag, built)} :
           /\ built' = r.plaintext_out
           /\ pop' = GObserved("decrypt_aes_gcm", r.res, r.len, key)

GNext ==
    \/ \E key \in AesKeys : \E plaintext \in Plaintexts : GEncrypt(key, plaintext)
    \/ \E i \in TagFlipPositions : \E mask \in FlipMasks : GFlipTag(i, mask)
    \/ \E i \in CiphertextFlipPositions : \E mask \in FlipMasks : GFlipCiphertext(i, mask)
    \/ \E key \in AesKeys : \E ct_len \in {0, Len(wire.ciphertext)} : GDecrypt(key, ct_len)

SpecGcm == InitGcm /\ [][GNext]_vars

\* The step is a call of the named AES-GCM operation
GCalled(name) == pop'.name = name /\ pop'.n # pop.n

\* The number of positions at which two byte arrays of one length differ
Differing(a, b) == Cardinality({i \in 1..Len(a) : a[i] # b[i]})

\* The message on the wire differs from the encrypted one in exactly one
\* byte, of the tag or of the ciphertext
OneByteChanged ==
    Differing(wire.tag, wire.sent_tag) + Differing(wire.ciphertext, wire.sent_ciphertext) = 1

\* C25: decrypt_aes_gcm returns IntegrityViolation whenever the tag does
\* not verify; with one tag byte or one ciphertext byte changed it returns
\* an error, IntegrityViolation for a changed tag, and never a length.
C25_TagFailureIsIntegrityViolation ==
    [][(GCalled("decrypt_aes_gcm") /\ pop'.res # "InvalidParameter") =>
          /\ ~GcmCheckTag(pop'.key, pkt.nonce, wire.ciphertext, wire.tag)
                => (pop'.res = "IntegrityViolation" /\ pop'.len = 0)
          /\ (pop'.key = pkt.key /\ OneByteChanged)
                => (pop'.res = "IntegrityViolation" /\ pop'.len = 0)]_vars

\* decrypt_aes_gcm with the encryption key on a message with one tag byte
\* changed
C25_Witness ==
    /\ pop.name = "decrypt_aes_gcm"
    /\ pop.res = "IntegrityViolation"
    /\ pop.key = pkt.key
    /\ Differing(wire.tag, wire.sent_tag) = 1
    /\ wire.ciphertext = wire.sent_ciphertext

\* C26: decrypt_aes_gcm hands out no plaintext when the tag does not
\* verify: after a call that returned IntegrityViolation the caller's
\* plaintext_out buffer does not hold the decryption of the ciphertext.
C26_NoPlaintextOnTagFailure ==
    [][(GCalled("decrypt_aes_gcm") /\ pop'.res = "IntegrityViolation") =>
          Bytes(built', 1, Len(wire.ciphertext))
              # GcmCrypt(pop'.key, pkt.nonce, wire.ciphertext)]_vars


-----------------------------------------------------------------------------
(* KeyStorage: a key pair saved to and loaded from platform storage.       *)
(* The storage is the EEPROM of ArduinoStorage, the checksum the crc32 of  *)
(* the platform crypto (an FNV-1a hash over the bytes), kept as its four   *)
(* little-endian bytes.                                                    *)

STORAGE_MAGIC == 1196641107
STORAGE_VERSION == 1
STORAGE_SIZE == 108
DEFAULT_ADDRESS == 0
EepromSize == 4096
MaxStorageFlips == 1

\* x * p modulo 2^32 on little-endian bytes
Mul32(x, p) ==
    LET t1 == x[1] * p[1]
        t2 == x[1] * p[2] + x[2] * p[1] + t1 \div 256
        t3 == x[1] * p[3] + x[2] * p[2] + x[3] * p[1] + t2 \div 256
        t4 == x[1] * p[4] + x[2] * p[3] + x[3] * p[2] + x[4] * p[1] + t3 \div 256
    IN  <<t1 % 256, t2 % 256, t3 % 256, t4 % 256>>

\* 2166136261 and 16777619 as little-endian bytes
FnvOffsetBasis == <<197, 157, 28, 129>>
FnvPrime == <<147, 1, 0, 1>>

\* hash ^= d; hash *= 16777619
FnvStep(h, d) == Mul32(<<Xor(h[1], d), h[2], h[3], h[4]>>, FnvPrime)

\* The loop of crc32 over data[lo..hi], entered with hash h
RECURSIVE Fnv1a(_, _, _, _)
Fnv1a(h, data, lo, hi) ==
    IF lo > hi THEN h
    ELSE IF lo = hi THEN FnvStep(h, data[lo])
    ELSE LET mid == (lo + hi) \div 2
             left == Fnv1a(h, data, lo, mid)
         IN  IF Len(left) = 4 THEN Fnv1a(left, data, mid + 1, hi) ELSE left

\* IPlatformCrypto::crc32(data, Len(data))
Crc32(data) == Fnv1a(FnvOffsetBasis, data, 1, Len(data))

\* ArduinoStorage::read
StorageRead(eeprom, address, length) ==
    IF length = 0 THEN [res |-> "InvalidParameter", data |-> <<>>]
    ELSE IF address + length > EepromSize THEN [res |-> "BufferOverflow", data |-> <<>>]
    ELSE [res |-> "Ok", data |-> Bytes(eeprom, address + 1, length)]

\* ArduinoStorage::write of the first length bytes of data
StorageWrite(eeprom, address, data, length) ==
    IF length = 0 THEN [res |-> "InvalidParameter", eeprom |-> eeprom]
    ELSE IF address + length > EepromSize THEN [res |-> "BufferOverflow", eeprom |-> eeprom]
    ELSE [res |-> "Ok", eeprom |-> MemCpy(eeprom, address + 1, Bytes(data, 1, length))]

\* The buffer KeyStorage::save fills before the checksum is stored
RecordBody(keypair) ==
    MemCpy(MemCpy(MemCpy(MemCpy(Zeros(STORAGE_SIZE), 1, LE32(STORAGE_MAGIC)),
                         5, <<STORAGE_VERSION>>),
                  9, GetPublicKey(keypair)),
           9 + ECC_PUBLIC_KEY_SIZE, GetPrivateKey(keypair))

\* A save that stores the private key in front of the public key
SaveKeysSwapped(keypair, eeprom, address) ==
    IF ~keypair.has_private \/ ~keypair.has_public
        THEN [res |-> "KeyGenerationFailed", eeprom |-> eeprom]
    ELSE LET b == MemCpy(MemCpy(RecordBody(keypair), 9, GetPrivateKey(keypair)),
                         9 + ECC_KEY_SIZE, GetPublicKey(keypair))
             buffer == MemCpy(b, STORAGE_SIZE - 3, Crc32(Bytes(b, 1, STORAGE_SIZE - 4)))
         IN  StorageWrite(eeprom, address, buffer, STORAGE_SIZE)

\* KeyStorage::save
Save(keypair, eeprom, address) ==
    IF ~keypair.has_private \/ ~keypair.has_public
        THEN [res |-> "KeyGenerationFailed", eeprom |-> eeprom]
    ELSE LET b == RecordBody(keypair)
             buffer == MemCpy(b, STORAGE_SIZE - 3, Crc32(Bytes(b, 1, STORAGE_SIZE - 4)))
         IN  StorageWrite(eeprom, address, buffer, STORAGE_SIZE)

\* A load that takes the keys without looking at magic and checksum
LoadUnverified(keypair, eeprom, address) ==
    LET rd == StorageRead(eeprom, address, STORAGE_SIZE)
    IN  IF rd.res # "Ok" THEN [res |-> rd.res, kp |-> keypair]
        ELSE LET pub == LoadPublicKey(keypair, Bytes(rd.data, 9, ECC_PUBLIC_KEY_SIZE))
             IN  LoadPrivateKey(pub.kp, Bytes(rd.data, 9 + ECC_PUBLIC_KEY_SIZE, ECC_KEY_SIZE))

\* KeyStorage::load
Load(keypair, eeprom, address) ==
    LET rd == StorageRead(eeprom, address, STORAGE_SIZE)
    IN  IF rd.res # "Ok" THEN [res |-> rd.res, kp |-> keypair]
        ELSE IF Bytes(rd.data, 1, 4) # LE32(STORAGE_MAGIC)
            THEN [res |-> "IntegrityViolation", kp |-> keypair]
        ELSE IF Crc32(Bytes(rd.data, 1, STORAGE_SIZE - 4)) # Bytes(rd.data, STORAGE_SIZE - 3, 4)
            THEN [res |-> "IntegrityViolation", kp |-> keypair]
        ELSE LET pub == LoadPublicKey(keypair, Bytes(rd.data, 9, ECC_PUBLIC_KEY_SIZE))
             IN  IF pub.res # "Ok" THEN pub
                 ELSE LoadPrivateKey(pub.kp, Bytes(rd.data, 9 + ECC_PUBLIC_KEY_SIZE, ECC_KEY_SIZE))

\* Addresses a caller passes: the default, the last one a record fits at,
\* and the first one it does not fit at
StorageAddresses == {DEFAULT_ADDRESS, EepromSize - STORAGE_SIZE, EepromSize - STORAGE_SIZE + 1}

\* Offsets of the record bytes that get corrupted: magic, version, public
\* key, private key, checksum
FlipOffsets == {0, 4, 50, 72, 103, 104}

\* The record of the last key storage call: the target key pair before it
\* (pre); n tells successive calls apart
StObserved(name, res, address) ==
    [name |-> name, res |-> res, address |-> address, pre |-> built, n |-> 1 - pop.n]

\* pkt is the key pair that is saved, built the key pair that is loaded
\* into (at first it holds keys of its own), wire the EEPROM; saved is the
\* last successful save for as long as the storage has not been changed
\* since
InitKeyStorage ==
    /\ pkt = Clear(ClearedKeyPair)
    /\ built = ServerKey
    /\ wire = [eeprom |-> SubSeq([i \in 1..EepromSize |-> 255], 1, EepromSize),
               flips |-> 0,
               saved |-> [unchanged |-> FALSE, address |-> 0, keypair |-> ClearedKeyPair]]
    /\ pop = [name |-> "new", res |-> "Ok", address |-> 0, pre |-> ClearedKeyPair, n |-> 0]
    /\ det = [idle |-> TRUE]
    /\ plat = [idle |-> TRUE]
    /\ top = [idle |-> TRUE]
    /\ sys = [idle |-> TRUE]
    /\ sop = [idle |-> TRUE]

\* original_keypair.generate()
StGenerate ==
    /\ UNCHANGED <<wire, built, tvars, svars>>
    /\ pkt' = Generate(pkt, 1, TRUE).kp
    /\ pop' = StObserved("generate", "Ok", 0)

\* loaded_keypair.clear()
StClear ==
    /\ UNCHANGED <<pkt, wire, tvars, svars>>
    /\ built' = Clear(built)
    /\ pop' = StObserved("clear", "Ok", 0)

\* key_storage.save(original_keypair, address)
StSave(address) ==
    /\ UNCHANGED <<pkt, built, tvars, svars>>
    /\ \E r \in {Save(pkt, wire.eeprom, address)} :
           /\ wire' = IF r.res = "Ok"
                      THEN [wire EXCEPT !.eeprom = r.eeprom,
                                        !.saved = [unchanged |-> TRUE, address |-> address,
                                                   keypair |-> pkt]]
                      ELSE wire
           /\ pop' = StObserved("save", r.res, address)

\* key_storage.load(loaded_keypair, address)
StLoad(address) ==
    /\ UNCHANGED <<pkt, wire, tvars, svars>>
    /\ \E r \in {Load(built, wire.eeprom, address)} :
           /\ built' = r.kp
           /\ pop' = StObserved("load", r.res, address)

\* One byte of the saved record changes: read, buffer[offset] ^= 0xFF, write
StFlip(offset) ==
    /\ UNCHANGED <<pkt, built, pop, tvars, svars>>
    /\ wire.flips < MaxStorageFlips
    /\ wire.saved.unchanged
    /\ wire' = [wire EXCEPT !.eeprom[wire.saved.address + offset + 1] = Xor(@, 255),
                            !.flips = @ + 1,
                            !.saved.unchanged = FALSE]

StNext ==
    \/ StGenerate
    \/ StClear
    \/ \E address \in StorageAddresses : StSave(address)
    \/ \E address \in StorageAddresses : StLoad(address)
    \/ \E offset \in FlipOffsets : StFlip(offset)

SpecKeyStorage == InitKeyStorage /\ [][StNext]_vars

\* The step is a call of the named key storage operation
StCalled(name) == pop'.name = name /\ pop'.n # pop.n

\* The 108 bytes stored at the address
StoredRecord(eeprom, address) == Bytes(eeprom, address + 1, STORAGE_SIZE)

\* C27: save(keypair, address) followed by load(other, address) on
\* unchanged storage succeeds, with both flags set and key bytes equal to
\* the saved ones; the record is 108 bytes: magic(4) | version(1) |
\* reserved(3) | public key(64) | private key(32) | crc32(4), the checksum
\* taken over the first 104 bytes.
C27_SaveLoadRoundTrip ==
    [][/\ (StCalled("load") /\ wire.saved.unchanged /\ pop'.address = wire.saved.address) =>
            /\ pop'.res = "Ok"
            /\ built'.has_private /\ built'.has_public
            /\ built'.public_key = wire.saved.keypair.public_key
            /\ built'.private_key = wire.saved.keypair.private_key
       /\ (StCalled("save") /\ pop'.res = "Ok") =>
            LET rec == StoredRecord(wire'.eeprom, pop'.address)
            IN  /\ Len(rec) = 4 + 1 + 3 + 64 + 32 + 4
                /\ Bytes(rec, 1, 4) = <<83, 75, 83, 71>>
                /\ Bytes(rec, 5, 4) = <<1, 0, 0, 0>>
                /\ Bytes(rec, 9, 64) = pkt.public_key
                /\ Bytes(rec, 73, 32) = pkt.private_key
                /\ Bytes(rec, 105, 4) = Crc32(Bytes(rec, 1, 104))]_vars

\* A key pair was saved at the end of the EEPROM and loaded from there into
\* a key pair that held other keys
C27_Witness ==
    /\ pop.name = "load"
    /\ pop.res = "Ok"
    /\ pop.address = EepromSize - STORAGE_SIZE
    /\ wire.saved.unchanged
    /\ wire.saved.address = pop.address
    /\ pop.pre.has_private
    /\ pop.pre.private_key # built.private_key
    /\ built.private_key = wire.saved.keypair.private_key

\* C28: load fails with IntegrityViolation when the stored magic is not
\* 0x47534B53, and when the checksum over the first 104 bytes does not
\* match the stored one, as it does not when one key byte of a saved
\* record was changed; in all these cases the target key pair is left as it
\* was.
C28_LoadRejectsCorruptRecord ==
    [][(StCalled("load") /\ pop'.address + STORAGE_SIZE <= EepromSize) =>
          LET rec == StoredRecord(wire.eeprom, pop'.address)
          IN  (\/ Bytes(rec, 1, 4) # <<83, 75, 83, 71>>
               \/ Crc32(Bytes(rec, 1, 104)) # Bytes(rec, 105, 4)
               \/ /\ wire.saved.address = pop'.address
                  /\ Differing(Bytes(rec, 9, 96),
                               wire.saved.keypair.public_key
                                   \o wire.saved.keypair.private_key) = 1)
                  => (pop'.res = "IntegrityViolation" /\ built' = built)]_vars

\* load was called on a saved record with one private key byte changed
\* and the magic intact
C28_Witness ==
    /\ pop.name = "load"
    /\ pop.res = "IntegrityViolation"
    /\ wire.flips = 1
    /\ Bytes(StoredRecord(wire.eeprom, pop.address), 1, 4) = <<83, 75, 83, 71>>
    /\ Bytes(StoredRecord(wire.eeprom, pop.address), 73, 32) # wire.saved.keypair.private_key
    /\ Bytes(StoredRecord(wire.eeprom, pop.address), 9, 64) = wire.saved.keypair.public_key
    /\ wire.saved.address = pop.address


-----------------------------------------------------------------------------
(* Rejected operations of the SecurePacket                                 *)

\* The step is a call of build
QBuildCalled == pop'.nb = pop.nb + 1

\* C29: build rejects a payload longer than 512 bytes with BufferOverflow
\* and a key pair without a private key with AuthenticationFailed, and a
\* rejected build leaves the packet object as it was: sequence counter,
\* header, payload and validity flag.
C29_RejectedBuildMutatesNothing ==
    [][QBuildCalled =>
          /\ pop'.payload_len > MAX_PAYLOAD_SIZE
                => (pop'.res = "BufferOverflow" /\ pkt' = pkt)
          /\ (pop'.payload_len <= MAX_PAYLOAD_SIZE /\ ~pop'.has_private)
                => (pop'.res = "AuthenticationFailed" /\ pkt' = pkt)
          /\ pop'.res \in {"BufferOverflow", "AuthenticationFailed"}
                => /\ pkt'.next_sequence = pkt.next_sequence
                   /\ pkt'.header = pkt.header
                   /\ pkt'.payload = pkt.payload
                   /\ pkt'.is_valid = pkt.is_valid]_vars

\* A build rejected for its payload length, on a packet object that an
\* earlier build had made valid and whose counter had advanced
C29_Witness ==
    /\ pop.name = "build"
    /\ pop.res = "BufferOverflow"
    /\ pop.payload_len = MAX_PAYLOAD_SIZE + 1
    /\ pop.nb >= 2
    /\ pkt.is_valid
    /\ Len(pop.seqs) >= 1


\* The step is a call of serialize with a buffer size or a result other
\* than those of the call before it
PSerializeCalled == pop'.name = "serialize" /\ pop' # pop

\* C30: serialize fails with InvalidState on a packet object that no build
\* and no parse has made valid, fails with BufferOverflow when the
\* destination is smaller than header + payload + footer, and otherwise
\* writes header, payload and footer contiguously, header size + payload
\* length + footer size bytes in all; a failing serialize writes nothing to
\* the destination.
C30_SerializeErrors ==
    [][PSerializeCalled =>
          /\ ~pkt.is_valid => (pop'.res = "InvalidState" /\ wire' = wire)
          /\ (pkt.is_valid /\ pop'.size < FrameSize(pkt))
                => (pop'.res = "BufferOverflow" /\ wire' = wire)
          /\ (pkt.is_valid /\ pop'.size >= FrameSize(pkt))
                => /\ pop'.res = "Ok"
                   /\ Len(wire'.buf) = HeaderSize + HdrPayloadLength(pkt.header) + FooterSize
                   /\ wire'.buf = pkt.header
                                    \o Bytes(pkt.payload, 1, HdrPayloadLength(pkt.header))
                                    \o pkt.footer]_vars

\* serialize of a built packet into a destination one byte too small, with
\* an earlier frame still in the destination
C30_Witness ==
    /\ pop.name = "serialize"
    /\ pop.res = "BufferOverflow"
    /\ pkt.is_valid
    /\ pop.size = FrameSize(pkt) - 1
    /\ Len(wire.buf) > 0

-----------------------------------------------------------------------------
(* The state guard of process_cycle                                        *)

\* C31: a process_cycle call made in any state other than Operating and
\* Tampered returns InvalidState and has no effect: no packet is built, no
\* send is made, no reading is analysed, and the orchestrator (its timers,
\* its validation state, its state and mode) and the Tamper Monitor are
\* left as they were.
C31_ProcessCycleRequiresRunning ==
    [][(SCalled("process_cycle") /\ sys.state \notin {"Operating", "Tampered"})
           => /\ sop'.res = "InvalidState"
              /\ sop'.built = <<>>
              /\ sop'.sends = <<>>
              /\ sop'.analysed = "none"
              /\ sys' = sys
              /\ det' = det]_vars

\* process_cycle was called after a failed initialize, at a later clock
\* time than the last validation stamp, and was rejected
C31_Witness ==
    /\ sop.name = "process_cycle"
    /\ sop.res = "InvalidState"
    /\ sys.state \in {"Initializing", "Error"}
    /\ plat.now > sys.validation_state.validation_timestamp

-----------------------------------------------------------------------------
(* Key possession                                                          *)

\* C32: sign succeeds only with a key pair whose private-key flag is set,
\* and verify returns a verdict only with a key pair whose public-key flag
\* is set; with the flag clear they return InvalidParameter, write no
\* signature and accept nothing.  get_private_key and get_public_key hand
\* out key bytes exactly while the corresponding flag is set, and then the
\* bytes of the buffer.
C32_KeyPossession ==
    [][/\ KCalled("sign") =>
              /\ pop'.res = "Ok" => pkt.has_private
              /\ ~pkt.has_private => (pop'.res = "InvalidParameter" /\ pop'.out = <<>>)
              /\ pkt' = pkt
       /\ KCalled("verify") =>
              /\ pop'.out # NoKey => pkt.has_public
              /\ ~pkt.has_public => (pop'.res = "InvalidParameter" /\ pop'.out = NoKey)
              /\ pkt' = pkt
       /\ KCalled("get_private_key") =>
              pop'.out = (IF pkt.has_private THEN pkt.private_key ELSE NoKey)
       /\ KCalled("get_public_key") =>
              pop'.out = (IF pkt.has_public THEN pkt.public_key ELSE NoKey)]_vars

\* sign was called with a key pair that holds only a loaded public key,
\* and was refused
C32_Witness ==
    /\ pop.name = "sign"
    /\ pop.res = "InvalidParameter"
    /\ pop.pre.has_public
    /\ ~pop.pre.has_private
    /\ pop.pre.public_key = ServerKey.public_key

-----------------------------------------------------------------------------
(* Tamper classification                                                   *)

\* The tamper type is None exactly when the detector is not Confirmed
TypeNoneIffNotConfirmed == (det.tamper_type = "None") <=> (DetState(det) # "Confirmed")

\* The step makes the detector Confirmed
BecomesConfirmed == DetState(det) # "Confirmed" /\ DetState(det') = "Confirmed"

\* C33: whenever the Tamper Monitor becomes Confirmed, the event type is
\* PowerCutAttempt if a backup-power pin is configured and the read of that
\* pin made at confirmation returns the de-energized level, and CasingOpened
\* in every other case (no pin configured, pin energized, read failed); the
\* type is None exactly when the monitor is not Confirmed.
C33_TamperClassification ==
    /\ []TypeNoneIffNotConfirmed
    /\ [][BecomesConfirmed =>
              det'.tamper_type =
                  (IF det.config.backup_power_pin > 0 /\ top'.power = "low"
                   THEN "PowerCutAttempt" ELSE "CasingOpened")]_vars

\* A poll confirmed a tamper on a detector with a backup power pin while
\* that pin read de-energized
C33_Witness ==
    /\ top.name = "poll"
    /\ DetState(top.pre) = "PendingConfirmation"
    /\ DetState(det) = "Confirmed"
    /\ det.config.backup_power_pin > 0
    /\ top.power = "low"
    /\ det.tamper_type = "PowerCutAttempt"

-----------------------------------------------------------------------------
(* The order of parse's checks                                             *)

\* The step is a parse call
PParseCalled == pop'.name = "parse" /\ pop'.np = pop.np + 1

\* The parts of a frame, read at the offsets the frame format gives
FrameHeader(b) == Bytes(b, 1, HeaderSize)
FramePayload(b) == Bytes(b, HeaderSize + 1, HdrPayloadLength(FrameHeader(b)))
FrameFooter(b) == Bytes(b, HeaderSize + HdrPayloadLength(FrameHeader(b)) + 1, FooterSize)

\* The payload checksum in the header is not that of the payload
ChecksumFails(b) == Bytes(Sha256(FramePayload(b)), 1, 4) # HdrChecksum(FrameHeader(b))

\* The signature in the footer is not one the key pair accepts over header
\* and payload
SignatureFails(b, key) ==
    \/ ~key.has_public
    \/ ~EccVerify(key.public_key, Sha256(FrameHeader(b) \o FramePayload(b)),
                  FtrSignature(FrameFooter(b)))

\* The first check, in the stated order, that frame b fails with the key
FirstFailingCheck(b, key) ==
    IF Len(b) < HeaderSize + FooterSize THEN "minimum length"
    ELSE IF HdrMagic(FrameHeader(b)) # MAGIC_HEADER THEN "header magic"
    ELSE IF HdrPayloadLength(FrameHeader(b)) > MAX_PAYLOAD_SIZE THEN "payload length"
    ELSE IF Len(b) < HeaderSize + HdrPayloadLength(FrameHeader(b)) + FooterSize
        THEN "total length"
    ELSE IF FtrMagic(FrameFooter(b)) # MAGIC_FOOTER THEN "footer magic"
    ELSE IF ChecksumFails(b) THEN "checksum"
    ELSE IF SignatureFails(b, key) THEN "signature"
    ELSE "none"

\* What parse returns when the named check is the first to fail
ResultOfCheck(c) ==
    CASE c = "minimum length" -> "InvalidPacket"
      [] c = "header magic" -> "InvalidPacket"
      [] c = "payload length" -> "BufferOverflow"
      [] c = "total length" -> "InvalidPacket"
      [] c = "footer magic" -> "InvalidPacket"
      [] c = "checksum" -> "IntegrityViolation"
      [] c = "signature" -> "SignatureInvalid"
      [] c = "none" -> "Ok"

\* C34: parse makes its checks in the order minimum length, header magic,
\* declared payload length, total length, footer magic, payload checksum,
\* signature, and returns the error of the first one that fails; the
\* signature verification is invoked only when the six checks before it
\* have passed, so a frame whose payload checksum mismatches is rejected
\* with IntegrityViolation without it, also when its signature is invalid
\* as well.
C34_ChecksumBeforeSignature ==
    [][PParseCalled =>
           \E c \in {FirstFailingCheck(wire.buf, pop'.key)} :
               /\ pop'.res = ResultOfCheck(c)
               /\ pop'.verified <=> c \in {"signature", "none"}]_vars

\* A frame whose payload byte was changed on the way was parsed with a key
\* pair that did not sign it: checksum and signature are both wrong, parse
\* returned IntegrityViolation and did not invoke the verification
C34_Witness ==
    /\ pop.name = "parse"
    /\ wire.kind = "built"
    /\ wire.tpos > HeaderSize
    /\ wire.tpos <= HeaderSize + BuiltPayloadLength
    /\ pop.key = ServerKey
    /\ built.key = DeviceKey
    /\ SignatureFails(wire.buf, pop.key)
    /\ pop.res = "IntegrityViolation"
    /\ ~pop.verified

-----------------------------------------------------------------------------
(* The Tamper Monitor under interrupt preemption: poll and reset run on    *)
(* the main loop one statement at a time, and a falling edge of the sensor *)
(* runs the interrupt handler between any two of them.  top holds the      *)
(* main loop's position (pc), poll's local variable, the parity of the     *)
(* calls made (n), and what is known about the last edge the handler took  *)
(* or was offered: whether it is still standing (edge) and the time of the *)
(* edge that set the pending flag (edge_time).  Pin reads succeed.         *)

InitPreempt ==
    /\ pkt = [idle |-> TRUE]
    /\ wire = [idle |-> TRUE]
    /\ pop = [idle |-> TRUE]
    /\ built = [idle |-> TRUE]
    /\ sys = [idle |-> TRUE]
    /\ sop = [idle |-> TRUE]
    /\ det = NewDetector
    /\ plat = [now |-> 0, sensor |-> TRUE, power |-> TRUE, irq |-> FALSE]
    /\ top = [pc |-> "idle", read |-> "none", n |-> 0, edge |-> FALSE, edge_time |-> 0]

\* initialize() from the main loop
IInitialize ==
    /\ UNCHANGED <<pvars, svars, plat, top>>
    /\ top.pc = "idle"
    /\ ~det.initialized
    /\ det' = DetInitialize(det, TamperConfig(2, 0, DebounceMs), TRUE, TRUE).det

\* start() from the main loop
IStart ==
    /\ UNCHANGED <<pvars, svars, det, top>>
    /\ top.pc = "idle"
    /\ ~plat.irq
    /\ plat' = [plat EXCEPT !.irq = DetStart(det, plat.irq).irq]

\* poll(), its guards: not initialized, or nothing to process
IPollEnter ==
    /\ UNCHANGED <<pvars, svars, det, plat>>
    /\ top.pc = "idle"
    /\ top' = [top EXCEPT !.n = 1 - @,
                          !.pc = IF ~det.initialized THEN "idle"
                                 ELSE IF ~det.pending_tamper \/ det.is_tampered THEN "idle"
                                 ELSE "debounce"]

\* poll(), the debounce window: read the clock and compare
IPollDebounce ==
    /\ UNCHANGED <<pvars, svars, det, plat>>
    /\ top.pc = "debounce"
    /\ top' = [top EXCEPT !.pc = IF plat.now - det.last_trigger_time < det.config.debounce_ms
                                 THEN "idle" ELSE "read"]

\* poll(), the re-read of the sensor pin
IPollRead ==
    /\ UNCHANGED <<pvars, svars, det, plat>>
    /\ top.pc = "read"
    /\ top' = [top EXCEPT !.pc = "decide", !.read = Level(plat.sensor)]

\* poll(), on what was read: discard the trigger and return, or confirm
IPollDecide ==
    /\ UNCHANGED <<pvars, svars, plat>>
    /\ top.pc = "decide"
    /\ IF top.read # "low"
       THEN /\ det' = [det EXCEPT !.pending_tamper = FALSE]
            /\ top' = [top EXCEPT !.pc = "idle", !.read = "none"]
       ELSE /\ det' = ConfirmTamper(det, plat.now, Level(plat.power))
            /\ top' = [top EXCEPT !.pc = "clear", !.read = "none"]

\* poll(), after confirm_tamper: clear the pending flag and return
IPollClear ==
    /\ UNCHANGED <<pvars, svars, plat>>
    /\ top.pc = "clear"
    /\ det' = [det EXCEPT !.pending_tamper = FALSE]
    /\ top' = [top EXCEPT !.pc = "idle"]

\* reset(), its guard and its first assignment
IResetBegin ==
    /\ UNCHANGED <<pvars, svars, plat>>
    /\ top.pc = "idle"
    /\ det.initialized
    /\ det' = [det EXCEPT !.is_tampered = FALSE]
    /\ top' = [top EXCEPT !.pc = "reset_pending", !.n = 1 - @]

\* reset(): pending_tamper_ = false
IResetPending ==
    /\ UNCHANGED <<pvars, svars, plat>>
    /\ top.pc = "reset_pending"
    /\ det' = [det EXCEPT !.pending_tamper = FALSE]
    /\ top' = [top EXCEPT !.pc = "reset_type", !.edge = FALSE]

\* reset(): tamper_type_ = None; tamper_timestamp_ = 0
IResetType ==
    /\ UNCHANGED <<pvars, svars, plat>>
    /\ top.pc = "reset_type"
    /\ det' = [det EXCEPT !.tamper_type = "None", !.tamper_timestamp = 0]
    /\ top' = [top EXCEPT !.pc = "reset_trigger"]

\* reset(): last_trigger_time_ = 0, and return
IResetTrigger ==
    /\ UNCHANGED <<pvars, svars, plat>>
    /\ top.pc = "reset_trigger"
    /\ det' = [det EXCEPT !.last_trigger_time = 0]
    /\ top' = [top EXCEPT !.pc = "idle"]

\* The sensor pin falls, wherever the main loop is; the handler runs if it
\* is attached and enabled.  (The clock leaves room for a debounce window.)
IFallingEdge ==
    /\ UNCHANGED <<pvars, svars>>
    /\ plat.sensor
    /\ plat.now + DebounceMs <= MaxTime
    /\ plat' = [plat EXCEPT !.sensor = FALSE]
    /\ det' = IF plat.irq THEN InterruptHandler(det, plat.now) ELSE det
    /\ top' = [top EXCEPT !.edge = plat.irq,
                          !.edge_time = IF plat.irq /\ ~det.is_tampered /\ ~det.pending_tamper
                                        THEN plat.now ELSE @]

\* The sensor pin rises
IRisingEdge ==
    /\ UNCHANGED <<pvars, svars, det>>
    /\ ~plat.sensor
    /\ plat' = [plat EXCEPT !.sensor = TRUE]
    /\ top' = [top EXCEPT !.edge = FALSE]

\* Time passes
ITick ==
    /\ UNCHANGED <<pvars, svars, det, top>>
    /\ plat.now + TickMs <= MaxTime
    /\ plat' = [plat EXCEPT !.now = @ + TickMs]

\* The statements of poll
IPoll == IPollEnter \/ IPollDebounce \/ IPollRead \/ IPollDecide \/ IPollClear

\* The main loop calls initialize, start and poll; the handler preempts
INext ==
    \/ IInitialize
    \/ IStart
    \/ IPollEnter
    \/ IPollDebounce
    \/ IPollRead
    \/ IPollDecide
    \/ IPollClear
    \/ IFallingEdge
    \/ IRisingEdge
    \/ ITick

SpecPreempt == InitPreempt /\ [][INext]_vars

\* The main loop runs on, calling poll again and again, and time passes
SpecPreemptFair == SpecPreempt /\ WF_vars(IPoll) /\ WF_vars(ITick)

\* The main loop calls reset as well
IRNext ==
    \/ IInitialize
    \/ IStart
    \/ IPollEnter
    \/ IPollDebounce
    \/ IPollRead
    \/ IPollDecide
    \/ IPollClear
    \/ IResetBegin
    \/ IResetPending
    \/ IResetType
    \/ IResetTrigger
    \/ IFallingEdge
    \/ IRisingEdge
    \/ ITick

SpecPreemptReset == InitPreempt /\ [][IRNext]_vars

\* C35: no tamper edge is lost under preemption of poll by the interrupt
\* handler: once a falling edge has arrived with the handler attached and
\* enabled, and the sensor stays asserted, repeated poll calls lead to the
\* detector being Confirmed.
C35_NoEdgeLost ==
    top.edge ~> (DetState(det) = "Confirmed" \/ ~top.edge)

\* An edge was offered to the handler while poll was between its re-read of
\* the sensor and its clearing of the pending flag
EdgeBetweenReadAndDiscard ==
    /\ top.pc = "decide"
    /\ top.read = "high"
    /\ top.edge
    /\ ~plat.sensor

\* C36: debounce is never bypassed: whenever the pending flag is set the
\* recorded trigger timestamp is the time of the edge that set it, and a
\* tamper is never confirmed earlier than debounce_ms after that edge.
C36_DebounceNeverBypassed ==
    [][/\ det'.pending_tamper => det'.last_trigger_time = top'.edge_time
       /\ (~det.is_tampered /\ det'.is_tampered) =>
              plat.now - top.edge_time >= det.config.debounce_ms]_vars

\* The handler ran after reset had cleared the pending flag and before it
\* zeroed the trigger timestamp
EdgeBetweenResetStatements ==
    /\ top.pc \in {"reset_type", "reset_trigger"}
    /\ det.pending_tamper
    /\ det.last_trigger_time = plat.now
    /\ plat.now > 0

-----------------------------------------------------------------------------
(* One Tamper Alert per tamper episode                                     *)

\* A send_tamper_alert call is among the sends, or a Tamper Alert among the
\* packets built
AlertIn(o) ==
    \/ \E i \in 1..Len(o.sends) : o.sends[i].type = PT_TamperAlert
    \/ \E i \in 1..Len(o.built) : o.built[i].type = PT_TamperAlert

\* C37: over any sequence of process_cycle calls, the tamper-alert build
\* and send step runs only in the cycle that moves the state from Operating
\* to Tampered, and once in it; in every later cycle, made while the state
\* is Tampered, no Tamper Alert is built or sent, whether or not the first
\* send succeeded.
C37_OneAlertPerEpisode ==
    [][SCalled("process_cycle") =>
           /\ AlertIn(sop') <=> (sys.state = "Operating" /\ sys'.state = "Tampered")
           /\ sys.state = "Tampered" => ~AlertIn(sop')
           /\ Cardinality({i \in 1..Len(sop'.sends) :
                               sop'.sends[i].type = PT_TamperAlert}) <= 1]_vars

\* A later cycle of a Tampered orchestrator whose detector still reports
\* the tamper: it sent a heartbeat and no alert
C37_Witness ==
    /\ sop.name = "process_cycle"
    /\ sop.res = "Ok"
    /\ sys.state = "Tampered"
    /\ det.is_tampered
    /\ Len(sop.sends) > 0
    /\ ~AlertIn(sop)

-----------------------------------------------------------------------------
(* Interrupt delivery after shutdown                                       *)

\* C38: after a shutdown call that returns success, tamper interrupt
\* delivery has been stopped (the sensor interrupt is disabled and
\* detached), whichever state shutdown was called from.
C38_ShutdownStopsInterrupts ==
    [][(SCalled("shutdown") /\ sop'.res = "Ok") => ~plat'.irq]_vars

\* shutdown was called in Ready or in Operating and succeeded, with the
\* interrupt stopped
ShutdownFromReadyOrOperating ==
    [][(SCalled("shutdown") /\ sop'.res = "Ok" /\ sys.state \in {"Ready", "Operating"})
           => ~plat'.irq]_vars

\* The orchestrator is shut down and the handler is still attached and
\* enabled
ShutDownWithInterruptLive ==
    /\ sys.state = "Shutdown"
    /\ sop.name = "shutdown"
    /\ sop.res = "Ok"
    /\ plat.irq

-----------------------------------------------------------------------------
(* The initialized flag and the state                                      *)

\* C39: between the public operations of the orchestrator, the initialized
\* flag is true exactly when the state is Ready, Operating or Tampered; it
\* is false in Uninitialized, Initializing, Error and Shutdown, after any
\* sequence of initialize, start, stop, process_cycle and shutdown calls
\* with any dependency failing.
C39_LifecycleFlag ==
    sys.initialized <=> sys.state \in {"Ready", "Operating", "Tampered"}

\* A Tampered orchestrator was shut down: the flag went from true to false
\* with the state
C39_Witness ==
    /\ sop.name = "shutdown"
    /\ sop.res = "Ok"
    /\ det.is_tampered
    /\ sys.state = "Shutdown"
    /\ ~sys.initialized

-----------------------------------------------------------------------------
(* Anomaly Detector: the recent-readings buffer and the profile that       *)
(* update_profile maintains.  pkt is the AnomalyDetector, pop the record   *)
(* of the calls made: updates counts the readings update_profile took.     *)

PROFILE_HISTORY_SIZE == 24
RecentCapacity == 100
ReadingPeriodMs == 2000

\* Bound: the number of readings handed to update_profile in a run
MaxUpdates == 102

\* StaticBuffer<T, N>::push
BufPush(b, item) == IF Len(b) >= RecentCapacity THEN b ELSE Append(b, item)

\* StaticBuffer<T, N>::pop: item = data_[--size_]
BufPop(b) == IF Len(b) = 0 THEN b ELSE SubSeq(b, 1, Len(b) - 1)

\* StaticBuffer<T, N>::full
BufFull(b) == Len(b) = RecentCapacity

\* The sum of field energy_wh over b[lo..hi]
RECURSIVE SumEnergy(_, _, _)
SumEnergy(b, lo, hi) ==
    IF lo > hi THEN 0
    ELSE IF lo = hi THEN b[lo].energy_wh
    ELSE LET mid == (lo + hi) \div 2
         IN  SumEnergy(b, lo, mid) + SumEnergy(b, mid + 1, hi)

\* The sum of h[lo..hi]
RECURSIVE SumSeq(_, _, _)
SumSeq(h, lo, hi) == IF lo > hi THEN 0 ELSE h[lo] + SumSeq(h, lo + 1, hi)

\* The baseline profile main.cpp configures
BaselineProfile ==
    [hourly_avg_wh |-> [i \in 1..PROFILE_HISTORY_SIZE |-> 1000 + (i - 1) * 10],
     daily_avg_wh |-> 1000,
     profile_confidence |-> 0]

\* AnomalyDetector::AnomalyDetector() with ConsumptionProfile()
NewAnomalyDetector ==
    [initialized |-> FALSE,
     profile |-> [hourly_avg_wh |-> [i \in 1..PROFILE_HISTORY_SIZE |-> 0],
                  daily_avg_wh |-> 0, profile_confidence |-> 0],
     recent_readings |-> <<>>]

\* AnomalyDetector::initialize
AnomalyInitialize(a, baseline_profile) ==
    IF a.initialized THEN [det |-> a, res |-> "SystemAlreadyInitialized"]
    ELSE [det |-> [a EXCEPT !.profile = baseline_profile, !.recent_readings = <<>>,
                            !.initialized = TRUE],
          res |-> "Ok"]

\* AnomalyDetector::update_profile
UpdateProfile(a, reading) ==
    IF ~a.initialized THEN [det |-> a, res |-> "SystemNotInitialized"]
    ELSE
        LET popped == IF BufFull(a.recent_readings) THEN BufPop(a.recent_readings)
                      ELSE a.recent_readings
            recent == BufPush(popped, reading)
            hour_index == (reading.timestamp \div 3600000) % PROFILE_HISTORY_SIZE
            hourly == [a.profile.hourly_avg_wh EXCEPT
                           ![hour_index + 1] = SumEnergy(recent, 1, Len(recent)) \div Len(recent)]
            profile == [hourly_avg_wh |-> hourly,
                        daily_avg_wh |-> SumSeq(hourly, 1, PROFILE_HISTORY_SIZE)
                                             \div PROFILE_HISTORY_SIZE,
                        profile_confidence |-> IF a.profile.profile_confidence < 100
                                               THEN a.profile.profile_confidence + 1
                                               ELSE a.profile.profile_confidence]
        IN  [det |-> [a EXCEPT !.recent_readings = recent,
                               !.profile = IF Len(recent) >= 10 THEN profile ELSE @],
             res |-> "Ok"]

\* The k-th reading of a run: taken every reading interval, each with its
\* own energy value
ReadingNo(k) == [timestamp |-> k * ReadingPeriodMs, energy_wh |-> 1000 + k]

InitAnomaly ==
    /\ pkt = NewAnomalyDetector
    /\ pop = [name |-> "new", res |-> "Ok", updates |-> 0, n |-> 0]
    /\ wire = [idle |-> TRUE]
    /\ built = [idle |-> TRUE]
    /\ det = [idle |-> TRUE]
    /\ plat = [idle |-> TRUE]
    /\ top = [idle |-> TRUE]
    /\ sys = [idle |-> TRUE]
    /\ sop = [idle |-> TRUE]

AInitialize ==
    /\ UNCHANGED <<wire, built, tvars, svars>>
    /\ \E r \in {AnomalyInitialize(pkt, BaselineProfile)} :
           /\ pkt' = r.det
           /\ pop' = [pop EXCEPT !.name = "initialize", !.res = r.res, !.n = 1 - @]

\* update_profile with the next reading
AUpdateProfile ==
    /\ UNCHANGED <<wire, built, tvars, svars>>
    /\ pop.updates < MaxUpdates
    /\ \E r \in {UpdateProfile(pkt, ReadingNo(pop.updates + 1))} :
           /\ pkt' = r.det
           /\ pop' = [pop EXCEPT !.name = "update_profile", !.res = r.res, !.n = 1 - @,
                                 !.updates = IF r.res = "Ok" THEN @ + 1 ELSE @]

ANext ==
    \/ AInitialize
    \/ AUpdateProfile

SpecAnomaly == InitAnomaly /\ [][ANext]_vars

\* C40: after any sequence of n update_profile calls the recent-readings
\* buffer holds the most recent min(n, 100) readings in arrival order (when
\* it is full, the oldest is removed before the new one is added), and its
\* size never exceeds 100.
C40_RecentWindow ==
    LET n == pop.updates
        m == Min(n, RecentCapacity)
    IN  /\ Len(pkt.recent_readings) = m
        /\ m <= RecentCapacity
        /\ \A i \in 1..m : pkt.recent_readings[i] = ReadingNo(n - m + i)

\* The size of the buffer is the smaller of the number of readings taken
\* and its capacity
RecentSizeBounded == Len(pkt.recent_readings) = Min(pop.updates, RecentCapacity)

\* What the buffer holds once more readings than its capacity have been
\* taken: the first readings of the run, and the newest in the last place
RecentKeepsOldest ==
    pop.updates > RecentCapacity =>
        /\ \A i \in 1..(RecentCapacity - 1) : pkt.recent_readings[i] = ReadingNo(i)
        /\ pkt.recent_readings[RecentCapacity] = ReadingNo(pop.updates)

\* More readings than the buffer's capacity have been taken
RecentOverflowed ==
    /\ pop.name = "update_profile"
    /\ pop.updates = RecentCapacity + 2
    /\ Len(pkt.recent_readings) = RecentCapacity

=============================================================================
